---- MODULE Spec2Model ----
(***************************************************************************)
(* A model of the Obsidian MCP server tools: the link-graph traversal of   *)
(* get_related_notes (tools/get-related-notes.ts), the relevance search of *)
(* search_notes (tools/search-notes.ts) and their helpers in               *)
(* tools/common.ts.  Strings are sequences of one-character strings.       *)
(***************************************************************************)
EXTENDS Integers, Sequences, FiniteSets, TLC

VARIABLES
    files,      \* the set of paths at which the vault holds a note file (TFile)
    cache,      \* metadataCache: path -> [links, embeds], sequences of link targets
    content,    \* vault.adapter.read: path -> text of the note
    stat,       \* file.stat: path -> [ctime, mtime], in milliseconds
    tags,       \* metadataCache.getFileCache(file).tags: path -> set of tags
    unreadable, \* the paths at which vault.adapter.read throws
    throwing,   \* the collaborators of the host that fail when they are called:
                \* "getCache" for the lookups of app.metadataCache, "write" for
                \* vault.adapter.write
    last,       \* the tool call being answered: its arguments, its response and
                \* its trace; NoCall once the response is delivered
    folders,    \* the set of paths at which the vault holds a folder (TFolder)
    pending,    \* the append_to_note calls suspended at an await, by request
    history,    \* the tool calls that have returned, in the order of their return
    server,     \* MCPServer.server: 0 for null, else the number of the instance
    instances,  \* the HTTP server instances created so far, in order: the state
                \* of each and the close callbacks registered on it
    plugin,     \* MCPServerPlugin: whether mcpServer is set, and the notice shown
    step,       \* the last step of the lifecycle or of the bridge: the operation,
                \* what it resolved, created or threw
    stdout      \* the lines the stdio bridge has written to its standard output

\* the state of the server, of the plugin and of the bridge around the tools
net == <<server, instances, plugin, step, stdout>>

vars ==
    <<files, cache, content, stat, tags, unreadable, throwing, last, folders, pending,
      history, net>>

-----------------------------------------------------------------------------
(* Bounds of the model.                                                    *)

\* total number of link and embed entries in the metadata cache of the vault
MaxLinks == 3
\* link entries in the vaults of the argument-validation specification
MaxArgLinks == 1
\* total number of characters of note text in the vaults of the search specification
MaxChars == 3

-----------------------------------------------------------------------------
(* Strings.                                                                *)

Min(a, b) == IF a < b THEN a ELSE b
Max(a, b) == IF a > b THEN a ELSE b

\* String.prototype.toLowerCase on one character of the model's alphabet
LowerChar(c) ==
    CASE c = "A" -> "a"
      [] c = "B" -> "b"
      [] c = "X" -> "x"
      [] OTHER -> c

ToLower(s) == [i \in 1..Len(s) |-> LowerChar(s[i])]

\* the characters of the model in the order of the collation: space and
\* punctuation before the letters
Alphabet ==
    <<" ", "-", ":", ".", "/", "a", "b", "c", "d", "e", "f", "g", "h", "i", "j", "k", "l",
      "m", "n", "o", "p", "q", "r", "s", "t", "u", "v", "w", "x", "y", "z">>

\* the rank of a character in the collation of localeCompare, its case set
\* aside; a character outside the alphabet sorts last
CharRank(c) ==
    LET at == {i \in 1..Len(Alphabet) : Alphabet[i] = LowerChar(c)}
    IN  IF at = {} THEN Len(Alphabet) + 1 ELSE CHOOSE i \in at : TRUE

\* String.prototype.startsWith
StartsWith(s, t) == Len(t) <= Len(s) /\ SubSeq(s, 1, Len(t)) = t

\* t occurs in s at the 1-based position i
OccursAt(s, t, i) == i >= 1 /\ i + Len(t) - 1 <= Len(s) /\ SubSeq(s, i, i + Len(t) - 1) = t

\* String.prototype.includes
Includes(s, t) == \E i \in 1..(Len(s) + 1) : OccursAt(s, t, i)

\* the position after the last "/" of a path (1 when there is none)
NameStart(p) ==
    LET slashes == {i \in 1..Len(p) : p[i] = "/"}
    IN  IF slashes = {} THEN 1 ELSE (CHOOSE i \in slashes : \A j \in slashes : j <= i) + 1

\* the position of the last "." of the file name of a path (0 when there is none)
ExtDot(p) ==
    LET dots == {i \in (NameStart(p) + 1)..Len(p) : p[i] = "."}
    IN  IF dots = {} THEN 0 ELSE CHOOSE i \in dots : \A j \in dots : j <= i

\* TFile.basename: the file name without its folder and its extension
Basename(p) ==
    IF ExtDot(p) = 0 THEN SubSeq(p, NameStart(p), Len(p))
    ELSE SubSeq(p, NameStart(p), ExtDot(p) - 1)

\* the folder a path lies in; the empty path at the root of the vault
Dirname(p) == SubSeq(p, 1, NameStart(p) - 2)

-----------------------------------------------------------------------------
(* The vault.                                                              *)

NoteA == <<"a", ".", "m", "d">>
NoteB == <<"b", ".", "m", "d">>
NoteAB == <<"a", "b", ".", "m", "d">>
NoteFA == <<"f", "/", "a", ".", "m", "d">>

\* the note paths of the model
Notes == {NoteA, NoteB, NoteAB, NoteFA}

\* a link target that resolves to no file
Ghost == <<"g", ".", "m", "d">>

\* what a link entry of the metadata cache may name
LinkTargets == Notes \cup {Ghost}

RECURSIVE PathBefore(_, _)
\* the order in which the host lists files: the shorter path first, paths
\* of one length by their characters
PathBefore(p, q) ==
    IF Len(p) # Len(q) THEN Len(p) < Len(q)
    ELSE IF p = <<>> THEN FALSE
    ELSE IF CharRank(Head(p)) # CharRank(Head(q)) THEN CharRank(Head(p)) < CharRank(Head(q))
    ELSE PathBefore(Tail(p), Tail(q))

RECURSIVE Listed(_)
\* the paths of the set S in the order in which the host lists files
Listed(S) ==
    IF S = {} THEN <<>>
    ELSE LET first == CHOOSE p \in S : \A q \in S \ {p} : PathBefore(p, q)
         IN  <<first>> \o Listed(S \ {first})

Range(s) == {s[i] : i \in 1..Len(s)}

\* the vault as a tool finds it at one moment of its run
View ==
    [files |-> files, cache |-> cache, content |-> content, stat |-> stat, tags |-> tags,
     unreadable |-> unreadable, throwing |-> throwing]

\* vault.adapter.read(p) in the vault v: the content of the file, or the
\* failure of the read
adapterRead(v, p) ==
    IF p \in v.unreadable \/ p \notin DOMAIN v.content THEN [ok |-> FALSE, text |-> <<>>]
    ELSE [ok |-> TRUE, text |-> v.content[p]]

\* vault.getMarkdownFiles() in the vault v: the files with the extension md
getMarkdownFiles(v) ==
    Listed({p \in v.files : ExtDot(p) # 0 /\ SubSeq(p, ExtDot(p) + 1, Len(p)) = <<"m", "d">>})

\* null and the empty string: both falsy, neither is the path of a file
Null == <<>>

\* getFileByPath: the file at the path, or null when there is none
getFileByPath(p) == IF p \in files THEN p ELSE Null

\* metadataCache.getFirstLinkpathDest: the file a link target resolves to, or null
getFirstLinkpathDest(link, from) == IF link \in files THEN link ELSE Null

\* [...(cache.links || []), ...(cache.embeds || [])]
allLinks(p) == IF p \in DOMAIN cache THEN cache[p].links \o cache[p].embeds ELSE <<>>

\* metadataCache.resolvedLinks[src]: the files the links of src resolve to
resolvedLinks(src) == {l \in Range(allLinks(src)) : getFirstLinkpathDest(l, src) # Null}

\* Object.entries(metadataCache.resolvedLinks): the sources, in the host's order
resolvedLinksKeys == Listed(DOMAIN cache)

-----------------------------------------------------------------------------
(* tools/common.ts                                                         *)

\* the letters of /^[A-Za-z]:/
Letters ==
    {"a", "b", "c", "d", "e", "f", "g", "h", "i", "j", "k", "l", "m", "n", "o", "p", "q",
     "r", "s", "t", "u", "v", "w", "x", "y", "z", "A", "B", "C", "D", "E", "F", "G", "H",
     "I", "J", "K", "L", "M", "N", "O", "P", "Q", "R", "S", "T", "U", "V", "W", "X", "Y",
     "Z"}

\* validatePath: no absolute path, no directory traversal
validatePath(path) ==
    IF StartsWith(path, <<"/">>) \/ (Len(path) >= 2 /\ path[1] \in Letters /\ path[2] = ":")
    THEN FALSE
    ELSE IF Includes(path, <<".", ".">>) THEN FALSE
    ELSE TRUE

\* the envelope of createErrorResponse; no suggestions is the empty sequence
createErrorResponse(code, suggestions) ==
    [success |-> FALSE, code |-> code, suggestions |-> suggestions, data |-> <<>>]

\* the envelope of createSuccessResponse
createSuccessResponse(data) ==
    [success |-> TRUE, code |-> "", suggestions |-> <<>>, data |-> data]

-----------------------------------------------------------------------------
(* tools/get-related-notes.ts                                              *)

RECURSIVE outlinksLoop_NoSeen(_, _, _, _)
\* outlinksLoop without its seen set: every resolved link entry is listed
outlinksLoop_NoSeen(links, from, seen, outlinks) ==
    IF links = <<>> THEN outlinks
    ELSE LET linkedFile == getFirstLinkpathDest(Head(links), from)
         IN  IF linkedFile # Null
             THEN outlinksLoop_NoSeen(Tail(links), from, seen, Append(outlinks, linkedFile))
             ELSE outlinksLoop_NoSeen(Tail(links), from, seen, outlinks)

RECURSIVE outlinksLoop(_, _, _, _)
\* the loop of getOutlinks over allLinks, with its seen set
outlinksLoop(links, from, seen, outlinks) ==
    IF links = <<>> THEN outlinks
    ELSE LET linkedFile == getFirstLinkpathDest(Head(links), from)
         IN  IF linkedFile # Null /\ linkedFile \notin seen
             THEN outlinksLoop(Tail(links), from, seen \cup {linkedFile},
                               Append(outlinks, linkedFile))
             ELSE outlinksLoop(Tail(links), from, seen, outlinks)

\* getOutlinks: the paths of the notes a note links to or embeds
getOutlinks(path) == outlinksLoop(allLinks(path), path, {}, <<>>)

RECURSIVE backlinksLoop(_, _, _, _)
\* the loop of getBacklinks over the entries of resolvedLinks, with its seen set
backlinksLoop(sources, path, seen, backlinks) ==
    IF sources = <<>> THEN backlinks
    ELSE LET sourcePath == Head(sources)
         IN  IF path \in resolvedLinks(sourcePath) /\ sourcePath \notin seen
             THEN backlinksLoop(Tail(sources), path, seen \cup {sourcePath},
                                IF getFileByPath(sourcePath) # Null
                                THEN Append(backlinks, sourcePath) ELSE backlinks)
             ELSE backlinksLoop(Tail(sources), path, seen, backlinks)

\* getBacklinks: the paths of the notes that link to a note
getBacklinks(path) == backlinksLoop(resolvedLinksKeys, path, {}, <<>>)

RECURSIVE SeqExclude(_, _)
\* the subsequence of s whose elements are not in the set S
SeqExclude(s, S) ==
    IF s = <<>> THEN <<>>
    ELSE (IF Head(s) \notin S THEN <<Head(s)>> ELSE <<>>) \o SeqExclude(Tail(s), S)

RECURSIVE expandLoop_NoVisitedCheck(_, _, _, _, _, _)
\* expandLoop without the skip of visited start paths
expandLoop_NoVisitedCheck(startPaths, direction, visited, transitive, newPaths, expanded) ==
    IF startPaths = <<>>
    THEN [visited |-> visited, transitive |-> transitive, newPaths |-> newPaths,
          expanded |-> expanded]
    ELSE LET currentPath == Head(startPaths)
             visited2 == visited \cup {currentPath}
             links == IF direction = "outlinks" THEN getOutlinks(currentPath)
                      ELSE getBacklinks(currentPath)
             fresh == SeqExclude(links, visited2)
         IN  expandLoop_NoVisitedCheck(Tail(startPaths), direction, visited2,
                                       transitive \o fresh, newPaths \o fresh,
                                       Append(expanded, currentPath))

RECURSIVE expandLoop(_, _, _, _, _, _)
\* the loop of getTransitiveLinks over startPaths; expanded records the notes
\* whose links were collected
expandLoop(startPaths, direction, visited, transitive, newPaths, expanded) ==
    IF startPaths = <<>>
    THEN [visited |-> visited, transitive |-> transitive, newPaths |-> newPaths,
          expanded |-> expanded]
    ELSE LET currentPath == Head(startPaths)
         IN  IF currentPath \in visited
             THEN expandLoop(Tail(startPaths), direction, visited, transitive, newPaths,
                             expanded)
             ELSE LET visited2 == visited \cup {currentPath}
                      links == IF direction = "outlinks" THEN getOutlinks(currentPath)
                               ELSE getBacklinks(currentPath)
                      fresh == SeqExclude(links, visited2)
                  IN  expandLoop(Tail(startPaths), direction, visited2,
                                 transitive \o fresh, newPaths \o fresh,
                                 Append(expanded, currentPath))

RECURSIVE getTransitiveLinks_NoDecrement(_, _, _, _)
\* getTransitiveLinks recursing with remainingDepth instead of remainingDepth - 1
getTransitiveLinks_NoDecrement(startPaths, direction, remainingDepth, visited) ==
    IF remainingDepth = 0 \/ startPaths = <<>>
    THEN [transitive |-> <<>>, visited |-> visited, expanded |-> <<>>, calls |-> 1]
    ELSE LET level == expandLoop(startPaths, direction, visited, <<>>, <<>>, <<>>)
         IN  IF remainingDepth > 1
             THEN LET deeper == getTransitiveLinks_NoDecrement(level.newPaths, direction,
                                                   remainingDepth, level.visited)
                  IN  [transitive |-> level.transitive \o deeper.transitive,
                       visited |-> deeper.visited,
                       expanded |-> level.expanded \o deeper.expanded,
                       calls |-> 1 + deeper.calls]
             ELSE [transitive |-> level.transitive, visited |-> level.visited,
                   expanded |-> level.expanded, calls |-> 1]

RECURSIVE getTransitiveLinks_OneLevelMore(_, _, _, _)
\* getTransitiveLinks that stops one level later: it still expands the start
\* paths when remainingDepth is 0
getTransitiveLinks_OneLevelMore(startPaths, direction, remainingDepth, visited) ==
    IF remainingDepth < 0 \/ startPaths = <<>>
    THEN [transitive |-> <<>>, visited |-> visited, expanded |-> <<>>, calls |-> 1]
    ELSE LET level == expandLoop(startPaths, direction, visited, <<>>, <<>>, <<>>)
         IN  IF remainingDepth > 0
             THEN LET deeper == getTransitiveLinks_OneLevelMore(level.newPaths, direction,
                                                   remainingDepth - 1, level.visited)
                  IN  [transitive |-> level.transitive \o deeper.transitive,
                       visited |-> deeper.visited,
                       expanded |-> level.expanded \o deeper.expanded,
                       calls |-> 1 + deeper.calls]
             ELSE [transitive |-> level.transitive, visited |-> level.visited,
                   expanded |-> level.expanded, calls |-> 1]

\* getTransitiveLinks that never recurses for the next level
getTransitiveLinks_OneLevel(startPaths, direction, remainingDepth, visited) ==
    IF remainingDepth = 0 \/ startPaths = <<>>
    THEN [transitive |-> <<>>, visited |-> visited, expanded |-> <<>>, calls |-> 1]
    ELSE LET level == expandLoop(startPaths, direction, visited, <<>>, <<>>, <<>>)
         IN  [transitive |-> level.transitive, visited |-> level.visited,
              expanded |-> level.expanded, calls |-> 1]

RECURSIVE getTransitiveLinks(_, _, _, _)
\* getTransitiveLinks: the links of links, level by level; calls counts the
\* invocations of the function, visited is the shared set after the call
getTransitiveLinks(startPaths, direction, remainingDepth, visited) ==
    IF remainingDepth = 0 \/ startPaths = <<>>
    THEN [transitive |-> <<>>, visited |-> visited, expanded |-> <<>>, calls |-> 1]
    ELSE LET level == expandLoop(startPaths, direction, visited, <<>>, <<>>, <<>>)
         IN  IF remainingDepth > 1
             THEN LET deeper == getTransitiveLinks(level.newPaths, direction,
                                                   remainingDepth - 1, level.visited)
                  IN  [transitive |-> level.transitive \o deeper.transitive,
                       visited |-> deeper.visited,
                       expanded |-> level.expanded \o deeper.expanded,
                       calls |-> 1 + deeper.calls]
             ELSE [transitive |-> level.transitive, visited |-> level.visited,
                   expanded |-> level.expanded, calls |-> 1]


\* a depth argument: absent, a number, a decimal string, or a string that is no number
DepthUndefined == [kind |-> "undefined", val |-> 0]
DepthNumber(n) == [kind |-> "number", val |-> n]
DepthString(n) == [kind |-> "string", val |-> n]
DepthText == [kind |-> "text", val |-> 0]

\* the depth the handler works with: the default 1 for an absent argument,
\* parseInt for a string; nan is isNaN(depth)
depthOf(depthParam) ==
    CASE depthParam.kind = "undefined" -> [nan |-> FALSE, val |-> 1]
      [] depthParam.kind = "number" -> [nan |-> FALSE, val |-> depthParam.val]
      [] depthParam.kind = "string" -> [nan |-> FALSE, val |-> depthParam.val]
      [] OTHER -> [nan |-> TRUE, val |-> 0]

\* the trace of a call that ended before the traversal
NoTrace == [expanded |-> <<>>, calls_out |-> 0, calls_back |-> 0, reads |-> 0]

\* the traversal of getRelatedNotes once the note and the depth are accepted
relatedNotesOf(path, depth) ==
    LET outlinks == getOutlinks(path)
        backlinks == getBacklinks(path)
        visited == {path}
        out == getTransitiveLinks(outlinks, "outlinks", depth - 1, visited)
        back == getTransitiveLinks(backlinks, "backlinks", depth - 1, out.visited)
    IN  [response |-> createSuccessResponse(
            [path |-> path, depth |-> depth,
             direct_outlinks |-> outlinks, direct_backlinks |-> backlinks,
             has_transitive |-> depth > 1,
             transitive_outlinks |-> IF depth > 1 THEN out.transitive ELSE <<>>,
             transitive_backlinks |-> IF depth > 1 THEN back.transitive ELSE <<>>]),
         trace |-> IF depth > 1
                   THEN [expanded |-> out.expanded \o back.expanded,
                         calls_out |-> out.calls, calls_back |-> back.calls, reads |-> 0]
                   ELSE NoTrace]

\* the score findSimilarPaths gives a file for a target path
similarScore(file, targetPath) ==
    LET targetLower == ToLower(targetPath)
        pathLower == ToLower(file)
        commonChars == Cardinality({i \in 1..Len(targetLower) :
                                        Includes(pathLower, <<targetLower[i]>>)})
    IN  (IF pathLower = targetLower THEN 100 ELSE 0)
        + (IF Includes(pathLower, targetLower) THEN 50 ELSE 0)
        + (IF Includes(ToLower(Basename(file)), targetLower) THEN 30 ELSE 0)
        + commonChars

RECURSIVE primaryCompare(_, _)
\* the comparison of the letters alone, case set aside
primaryCompare(s, t) ==
    IF s = <<>> /\ t = <<>> THEN 0
    ELSE IF s = <<>> THEN -1
    ELSE IF t = <<>> THEN 1
    ELSE IF CharRank(Head(s)) < CharRank(Head(t)) THEN -1
    ELSE IF CharRank(Head(s)) > CharRank(Head(t)) THEN 1
    ELSE primaryCompare(Tail(s), Tail(t))

\* the comparison of the case of two strings of the same letters: at the
\* first difference the lower-case letter sorts first
caseCompare(s, t) ==
    LET differ == {i \in 1..Len(s) : s[i] # t[i]}
        first == CHOOSE i \in differ : \A j \in differ : i <= j
    IN  IF differ = {} THEN 0 ELSE IF s[first] = LowerChar(s[first]) THEN -1 ELSE 1

\* String.prototype.localeCompare: negative, zero or positive; the letters
\* decide, and the case only between strings of the same letters
localeCompare(s, t) ==
    IF primaryCompare(s, t) # 0 THEN primaryCompare(s, t) ELSE caseCompare(s, t)

\* the compare function of the sort chosen by sort_by; created and modified
\* are the millisecond stamps their ISO strings are parsed back to
Compare(a, b, sort_by) ==
    CASE sort_by = "relevance" -> b.score - a.score
      [] sort_by = "modified" -> b.modified - a.modified
      [] sort_by = "created" -> b.created - a.created
      [] sort_by = "title" -> localeCompare(a.title, b.title)
      [] OTHER -> 0

RECURSIVE insertSorted(_, _, _)
\* item put into a sorted list after every element that does not sort after
\* it (Array.prototype.sort is stable)
insertSorted(sorted, item, sort_by) ==
    IF sorted = <<>> THEN <<item>>
    ELSE IF Compare(Head(sorted), item, sort_by) <= 0
         THEN <<Head(sorted)>> \o insertSorted(Tail(sorted), item, sort_by)
         ELSE <<item>> \o sorted

RECURSIVE sortResults(_, _)
\* Array.prototype.sort with the compare function of sort_by
sortResults(items, sort_by) ==
    IF items = <<>> THEN <<>>
    ELSE insertSorted(sortResults(SubSeq(items, 1, Len(items) - 1), sort_by),
                      items[Len(items)], sort_by)

\* Array.prototype.slice(0, n) for n >= 0
Slice(s, n) == SubSeq(s, 1, Min(n, Len(s)))

\* findSimilarPaths without the slice: every path of a positive score
findSimilarPaths_NoSlice(targetPath, maxResults) ==
    LET markdownFiles == getMarkdownFiles(View)
        scored == [i \in 1..Len(markdownFiles) |->
                      [path |-> markdownFiles[i],
                       score |-> similarScore(markdownFiles[i], targetPath)]]
        top == SelectSeq(sortResults(scored, "relevance"), LAMBDA item : item.score > 0)
    IN  [i \in 1..Len(top) |-> top[i].path]

\* findSimilarPaths: the best-scored existing paths, at most maxResults
findSimilarPaths(targetPath, maxResults) ==
    LET markdownFiles == getMarkdownFiles(View)
        scored == [i \in 1..Len(markdownFiles) |->
                      [path |-> markdownFiles[i],
                       score |-> similarScore(markdownFiles[i], targetPath)]]
        top == SelectSeq(Slice(sortResults(scored, "relevance"), maxResults), LAMBDA item : item.score > 0)
    IN  [i \in 1..Len(top) |-> top[i].path]

\* getRelatedNotes with the depth checked against 0..3 instead of 1..3
getRelatedNotes_DepthFromZero(path, depthParam) ==
    IF path = Null
    THEN [response |-> createErrorResponse("MISSING_PARAMETER", <<>>), trace |-> NoTrace]
    ELSE IF ~validatePath(path)
    THEN [response |-> createErrorResponse("INVALID_PATH", <<>>), trace |-> NoTrace]
    ELSE IF getFileByPath(path) = Null
    THEN [response |-> createErrorResponse("NOTE_NOT_FOUND", findSimilarPaths(path, 3)),
          trace |-> NoTrace]
    ELSE LET depth == depthOf(depthParam)
         IN  IF depth.nan \/ depth.val < 0 \/ depth.val > 3
             THEN [response |-> createErrorResponse("INVALID_PARAMETER", <<>>),
                   trace |-> NoTrace]
             ELSE IF "getCache" \in throwing
             THEN [response |-> createErrorResponse("RELATED_NOTES_ERROR", <<>>),
                   trace |-> NoTrace]
             ELSE relatedNotesOf(path, depth.val)

\* getRelatedNotes: the response of the tool and the trace of its traversal.
\* The traversal begins with getOutlinks on the note, whose first statement
\* is the lookup metadataCache.getCache: when the lookup throws, the catch
\* block of the tool answers RELATED_NOTES_ERROR
getRelatedNotes(path, depthParam) ==
    IF path = Null
    THEN [response |-> createErrorResponse("MISSING_PARAMETER", <<>>), trace |-> NoTrace]
    ELSE IF ~validatePath(path)
    THEN [response |-> createErrorResponse("INVALID_PATH", <<>>), trace |-> NoTrace]
    ELSE IF getFileByPath(path) = Null
    THEN [response |-> createErrorResponse("NOTE_NOT_FOUND", findSimilarPaths(path, 3)),
          trace |-> NoTrace]
    ELSE LET depth == depthOf(depthParam)
         IN  IF depth.nan \/ depth.val < 1 \/ depth.val > 3
             THEN [response |-> createErrorResponse("INVALID_PARAMETER", <<>>),
                   trace |-> NoTrace]
             ELSE IF "getCache" \in throwing
             THEN [response |-> createErrorResponse("RELATED_NOTES_ERROR", <<>>),
                   trace |-> NoTrace]
             ELSE relatedNotesOf(path, depth.val)

-----------------------------------------------------------------------------
(* tools/common.ts: extractSnippet                                         *)

\* the white space String.prototype.trim removes
WhiteSpace == {" ", "\n"}

RECURSIVE TrimStart(_)
TrimStart(s) == IF s # <<>> /\ Head(s) \in WhiteSpace THEN TrimStart(Tail(s)) ELSE s

RECURSIVE TrimEnd(_)
TrimEnd(s) ==
    IF s # <<>> /\ s[Len(s)] \in WhiteSpace THEN TrimEnd(SubSeq(s, 1, Len(s) - 1)) ELSE s

\* String.prototype.trim
Trim(s) == TrimEnd(TrimStart(s))

\* String.prototype.substring(a, b) for 0 <= a <= b, positions counted from 0
Substring(s, a, b) == SubSeq(s, Min(a, Len(s)) + 1, Min(b, Len(s)))

\* String.prototype.indexOf, counted from 0; -1 when t does not occur
IndexOf(s, t) ==
    IF Includes(s, t)
    THEN (CHOOSE i \in 1..(Len(s) + 1) :
              OccursAt(s, t, i) /\ \A j \in 1..(i - 1) : ~OccursAt(s, t, j)) - 1
    ELSE -1

Ellipsis == <<".", ".", ".">>
Bold == <<"*", "*">>

RECURSIVE Highlight(_, _)
\* snippet.replace(new RegExp(`(${escapeRegex(term)})`, 'gi'), '**$1**'): the
\* matches are taken from the left and do not overlap; the empty term matches
\* before every character and at the end
Highlight(s, term) ==
    IF term = <<>>
    THEN IF s = <<>> THEN Bold \o Bold
         ELSE Bold \o Bold \o <<Head(s)>> \o Highlight(Tail(s), term)
    ELSE IF Len(s) < Len(term) THEN s
    ELSE IF ToLower(SubSeq(s, 1, Len(term))) = ToLower(term)
         THEN Bold \o SubSeq(s, 1, Len(term)) \o Bold
              \o Highlight(SubSeq(s, Len(term) + 1, Len(s)), term)
         ELSE <<Head(s)>> \o Highlight(Tail(s), term)

\* the window extractSnippet cuts around the first occurrence of the term,
\* with its ellipsis markers, before the highlight
snippetWindow(text, searchTerm, maxLength) ==
    LET index == IndexOf(ToLower(text), ToLower(searchTerm))
        halfLength == maxLength \div 2
        start == Max(0, index - halfLength)
        end == Min(Len(text), start + maxLength)
    IN  (IF start > 0 THEN Ellipsis ELSE <<>>)
        \o Substring(text, start, end)
        \o (IF end < Len(text) THEN Ellipsis ELSE <<>>)

\* extractSnippet with a window that runs to the end of the text
extractSnippet_NoEnd(text, searchTerm, maxLength) ==
    LET index == IndexOf(ToLower(text), ToLower(searchTerm))
    IN  IF index = -1
        THEN Trim(Substring(text, 0, maxLength))
             \o (IF Len(text) > maxLength THEN Ellipsis ELSE <<>>)
        ELSE LET halfLength == maxLength \div 2
                 start == Max(0, index - halfLength)
                 end == Len(text)
                 snippet == (IF start > 0 THEN Ellipsis ELSE <<>>)
                            \o Substring(text, start, end)
                            \o (IF end < Len(text) THEN Ellipsis ELSE <<>>)
             IN  Trim(Highlight(snippet, searchTerm))

\* extractSnippet with the ellipsis of a cut text put before it
extractSnippet_EllipsisFirst(text, searchTerm, maxLength) ==
    LET index == IndexOf(ToLower(text), ToLower(searchTerm))
    IN  IF index = -1
        THEN (IF Len(text) > maxLength THEN Ellipsis ELSE <<>>)
             \o Trim(Substring(text, 0, maxLength))
        ELSE LET halfLength == maxLength \div 2
                 start == Max(0, index - halfLength)
                 end == Min(Len(text), start + maxLength)
                 snippet == (IF start > 0 THEN Ellipsis ELSE <<>>)
                            \o Substring(text, start, end)
                            \o (IF end < Len(text) THEN Ellipsis ELSE <<>>)
             IN  Trim(Highlight(snippet, searchTerm))

\* extractSnippet: the text around the first occurrence of the term
extractSnippet(text, searchTerm, maxLength) ==
    LET index == IndexOf(ToLower(text), ToLower(searchTerm))
    IN  IF index = -1
        THEN Trim(Substring(text, 0, maxLength))
             \o (IF Len(text) > maxLength THEN Ellipsis ELSE <<>>)
        ELSE LET halfLength == maxLength \div 2
                 start == Max(0, index - halfLength)
                 end == Min(Len(text), start + maxLength)
                 snippet == (IF start > 0 THEN Ellipsis ELSE <<>>)
                            \o Substring(text, start, end)
                            \o (IF end < Len(text) THEN Ellipsis ELSE <<>>)
             IN  Trim(Highlight(snippet, searchTerm))

-----------------------------------------------------------------------------
(* tools/common.ts: the frontmatter block; getFileSnippet and the snippets *)
(* of get-related-notes.ts                                                  *)

\* the lines that open and close a frontmatter block
Opening == <<"-", "-", "-", "\n">>
Closing == <<"\n", "-", "-", "-", "\n">>

RECURSIVE closingFrom(_, _)
\* the first position from i on where the closing line occurs, 0 when none:
\* the lazy [\s\S]*? stops at the first closing line
closingFrom(s, i) ==
    IF i + Len(Closing) - 1 > Len(s) THEN 0
    ELSE IF OccursAt(s, Closing, i) THEN i
    ELSE closingFrom(s, i + 1)

\* the match of /^---\n[\s\S]*?\n---\n/: the position of its closing line, 0
\* when the text does not begin with a block
frontmatterMatch(text) ==
    IF StartsWith(text, Opening) THEN closingFrom(text, Len(Opening) + 1) ELSE 0

\* removeFrontmatter that strips nothing
removeFrontmatter_Keep(text) == text

\* removeFrontmatter: the text without its leading block
removeFrontmatter(text) ==
    LET i == frontmatterMatch(text)
    IN  IF i = 0 THEN text ELSE SubSeq(text, i + Len(Closing), Len(text))

\* extractFrontmatter: what stands between the opening and the closing line,
\* or null; the empty string and null are both falsy to the callers
extractFrontmatter(text) ==
    LET i == frontmatterMatch(text)
    IN  IF i = 0 THEN Null ELSE SubSeq(text, Len(Opening) + 1, i - 1)

\* '[Error reading file]'
ErrorSnippet ==
    <<"[", "E", "r", "r", "o", "r", " ", "r", "e", "a", "d", "i", "n", "g", " ",
      "f", "i", "l", "e", "]">>

\* getFileSnippet with an empty snippet for a note that cannot be read
getFileSnippet_EmptyOnError(read, maxLength) ==
    IF ~read.ok THEN <<>>
    ELSE LET withoutFrontmatter == removeFrontmatter(read.text)
         IN  Trim(Substring(withoutFrontmatter, 0, maxLength))
             \o (IF Len(withoutFrontmatter) > maxLength THEN Ellipsis ELSE <<>>)

\* getFileSnippet from the answer to its read on: the beginning of the note
\* after its frontmatter, or the placeholder when the read failed
getFileSnippet(read, maxLength) ==
    IF ~read.ok THEN ErrorSnippet
    ELSE LET withoutFrontmatter == removeFrontmatter(read.text)
         IN  Trim(Substring(withoutFrontmatter, 0, maxLength))
             \o (IF Len(withoutFrontmatter) > maxLength THEN Ellipsis ELSE <<>>)

\* the options include_snippets and max_snippet_length with their defaults
includeSnippetsOf(include_snippets) == include_snippets = "true"
maxSnippetLengthOf(max_snippet_length) ==
    IF max_snippet_length.kind = "undefined" THEN 150 ELSE max_snippet_length.val

\* the RelatedNote records of a list of paths when no snippets are asked for
relatedNotes(paths) ==
    [i \in 1..Len(paths) |->
        [path |-> paths[i], title |-> Basename(paths[i]), has_snippet |-> FALSE,
         snippet |-> <<>>]]

\* the RelatedNote record of a note with the snippet read in the vault v
relatedNote(v, path, maxLength) ==
    [path |-> path, title |-> Basename(path), has_snippet |-> TRUE,
     snippet |-> getFileSnippet(adapterRead(v, path), maxLength)]

\* the paths of a list of RelatedNote records
pathsOf(notes) == [i \in 1..Len(notes) |-> notes[i].path]

\* [...(cache.links || []), ...(cache.embeds || [])] in the vault v
linksIn(v, p) ==
    IF p \in DOMAIN v.cache THEN v.cache[p].links \o v.cache[p].embeds ELSE <<>>

\* Object.entries(metadataCache.resolvedLinks) in the vault v: each source
\* with the files its links resolve to, in the host's order
entriesIn(v) ==
    LET keys == Listed(DOMAIN v.cache)
    IN  [i \in 1..Len(keys) |->
            [source |-> keys[i],
             destinations |-> {l \in Range(linksIn(v, keys[i])) : l \in v.files}]]

(* With include_snippets the traversal waits for the host at the read of    *)
(* each snippet. views[n] is the vault in which the call runs its n-th      *)
(* stretch: a read issued in views[n] is answered with the content of then, *)
(* and the call goes on in views[n + 1]. Every loop stops where the views   *)
(* end, and n tells the stretch the call has reached.                       *)

RECURSIVE outlinksRun(_, _, _, _, _, _)
\* the loop of getOutlinks over the links of the cache entry it took
outlinksRun(links, seen, outlinks, maxLength, n, views) ==
    IF links = <<>> \/ n > Len(views) THEN [notes |-> outlinks, n |-> n]
    ELSE IF Head(links) \notin views[n].files \/ Head(links) \in seen
    THEN outlinksRun(Tail(links), seen, outlinks, maxLength, n, views)
    ELSE outlinksRun(Tail(links), seen \cup {Head(links)},
                     Append(outlinks, relatedNote(views[n], Head(links), maxLength)),
                     maxLength, n + 1, views)

\* getOutlinks with snippets, begun in stretch n
getOutlinksRun(path, maxLength, n, views) ==
    IF n > Len(views) THEN [notes |-> <<>>, n |-> n]
    ELSE outlinksRun(linksIn(views[n], path), {}, <<>>, maxLength, n, views)

RECURSIVE backlinksRun(_, _, _, _, _, _, _)
\* the loop of getBacklinks over the entries of resolvedLinks it took
backlinksRun(entries, path, seen, backlinks, maxLength, n, views) ==
    IF entries = <<>> \/ n > Len(views) THEN [notes |-> backlinks, n |-> n]
    ELSE IF path \notin Head(entries).destinations \/ Head(entries).source \in seen
    THEN backlinksRun(Tail(entries), path, seen, backlinks, maxLength, n, views)
    ELSE IF Head(entries).source \notin views[n].files
    THEN backlinksRun(Tail(entries), path, seen \cup {Head(entries).source}, backlinks,
                      maxLength, n, views)
    ELSE backlinksRun(Tail(entries), path, seen \cup {Head(entries).source},
                      Append(backlinks,
                             relatedNote(views[n], Head(entries).source, maxLength)),
                      maxLength, n + 1, views)

\* getBacklinks with snippets, begun in stretch n
getBacklinksRun(path, maxLength, n, views) ==
    IF n > Len(views) THEN [notes |-> <<>>, n |-> n]
    ELSE backlinksRun(entriesIn(views[n]), path, {}, <<>>, maxLength, n, views)

RECURSIVE NotesExclude(_, _)
\* the RelatedNote records of the list whose paths are not in the set S
NotesExclude(notes, S) ==
    IF notes = <<>> THEN <<>>
    ELSE (IF Head(notes).path \notin S THEN <<Head(notes)>> ELSE <<>>)
             \o NotesExclude(Tail(notes), S)

RECURSIVE expandRun(_, _, _, _, _, _, _, _, _)
RECURSIVE expandNext(_, _, _, _, _, _, _, _, _)

\* the loop of getTransitiveLinks goes on after the links of one start path
\* have come in
expandNext(rest, direction, visited, transitive, newPaths, reads, maxLength, views, links) ==
    expandRun(rest, direction, visited,
              transitive \o NotesExclude(links.notes, visited),
              newPaths \o pathsOf(NotesExclude(links.notes, visited)),
              reads \cup Range(pathsOf(links.notes)), maxLength, links.n, views)

\* the loop of getTransitiveLinks over startPaths; reads collects the notes
\* whose snippets were read
expandRun(startPaths, direction, visited, transitive, newPaths, reads, maxLength, n, views) ==
    IF startPaths = <<>> \/ n > Len(views)
    THEN [visited |-> visited, transitive |-> transitive, newPaths |-> newPaths,
          reads |-> reads, n |-> n]
    ELSE IF Head(startPaths) \in visited
    THEN expandRun(Tail(startPaths), direction, visited, transitive, newPaths, reads,
                   maxLength, n, views)
    ELSE expandNext(Tail(startPaths), direction, visited \cup {Head(startPaths)},
                    transitive, newPaths, reads, maxLength, views,
                    IF direction = "outlinks"
                    THEN getOutlinksRun(Head(startPaths), maxLength, n, views)
                    ELSE getBacklinksRun(Head(startPaths), maxLength, n, views))

RECURSIVE transitiveRun(_, _, _, _, _, _, _)
RECURSIVE transitiveNext(_, _, _, _, _)

\* the links of one level joined with those of the levels below
transitiveJoin(level, deeper) ==
    [transitive |-> level.transitive \o deeper.transitive, visited |-> deeper.visited,
     reads |-> level.reads \cup deeper.reads, n |-> deeper.n]

\* getTransitiveLinks goes on after its loop: it recurses for the next level
\* while remainingDepth is above 1
transitiveNext(direction, remainingDepth, maxLength, views, level) ==
    IF remainingDepth > 1
    THEN transitiveJoin(level,
                        transitiveRun(level.newPaths, direction, remainingDepth - 1,
                                      level.visited, maxLength, level.n, views))
    ELSE [transitive |-> level.transitive, visited |-> level.visited,
          reads |-> level.reads, n |-> level.n]

\* getTransitiveLinks with snippets, begun in stretch n
transitiveRun(startPaths, direction, remainingDepth, visited, maxLength, n, views) ==
    IF remainingDepth = 0 \/ startPaths = <<>> \/ n > Len(views)
    THEN [transitive |-> <<>>, visited |-> visited, reads |-> {}, n |-> n]
    ELSE transitiveNext(direction, remainingDepth, maxLength, views,
                        expandRun(startPaths, direction, visited, <<>>, <<>>, {},
                                  maxLength, n, views))

\* the traversal of getRelatedNotes with snippets, once the note and the
\* depth are accepted: whether it has returned in the vaults of views, and
\* then its response and the notes whose content was read
relatedRun(path, depth, maxLength, views) ==
    LET outlinks == getOutlinksRun(path, maxLength, 1, views)
        backlinks == getBacklinksRun(path, maxLength, outlinks.n, views)
        out == transitiveRun(pathsOf(outlinks.notes), "outlinks", depth - 1, {path},
                             maxLength, backlinks.n, views)
        back == transitiveRun(pathsOf(backlinks.notes), "backlinks", depth - 1,
                              out.visited, maxLength, out.n, views)
        n == IF depth > 1 THEN back.n ELSE backlinks.n
    IN  IF n > Len(views) THEN [done |-> FALSE]
        ELSE [done |-> TRUE,
              out |-> [response |-> createSuccessResponse(
                           [path |-> path, depth |-> depth,
                            direct_outlinks |-> outlinks.notes,
                            direct_backlinks |-> backlinks.notes,
                            has_transitive |-> depth > 1,
                            transitive_outlinks |->
                                IF depth > 1 THEN out.transitive ELSE <<>>,
                            transitive_backlinks |->
                                IF depth > 1 THEN back.transitive ELSE <<>>]),
                       reads |-> Range(pathsOf(outlinks.notes))
                                 \cup Range(pathsOf(backlinks.notes))
                                 \cup (IF depth > 1 THEN out.reads \cup back.reads ELSE {}),
                       written |-> {}]]

\* the response of getRelatedNotes without snippets, given the result r of
\* the traversal: the lists hold RelatedNote records, and no content is read
relatedWithOptions(r) ==
    IF ~r.response.success THEN [response |-> r.response, reads |-> {}, written |-> {}]
    ELSE LET d == r.response.data
         IN  [response |-> createSuccessResponse(
                  [path |-> d.path, depth |-> d.depth,
                   direct_outlinks |-> relatedNotes(d.direct_outlinks),
                   direct_backlinks |-> relatedNotes(d.direct_backlinks),
                   has_transitive |-> d.has_transitive,
                   transitive_outlinks |-> relatedNotes(d.transitive_outlinks),
                   transitive_backlinks |-> relatedNotes(d.transitive_backlinks)]),
              reads |-> {}, written |-> {}]

\* getRelatedNotes with snippets from its traversal on, in the vaults of
\* views; the traversal begins with a lookup in the metadata cache
getRelatedNotesRun(path, options, views) ==
    IF "getCache" \in views[1].throwing
    THEN [done |-> TRUE,
          out |-> [response |-> createErrorResponse("RELATED_NOTES_ERROR", <<>>),
                   reads |-> {}, written |-> {}]]
    ELSE relatedRun(path, depthOf(options.depth).val,
                    maxSnippetLengthOf(options.max_snippet_length), views)

\* getRelatedNotes with all its options up to its first wait for the host:
\* the checks and, without snippets, the whole traversal are done at once
relatedBegin(options, r) ==
    IF ~r.response.success \/ ~includeSnippetsOf(options.include_snippets)
    THEN [done |-> TRUE, out |-> relatedWithOptions(r)]
    ELSE getRelatedNotesRun(r.response.data.path, options, <<View>>)

\* getRelatedNotes with all its options; the call it leaves suspended when it
\* waits
getRelatedNotesWithOptions(path, options) ==
    [call |-> [tool |-> "get_related_notes", path |-> path, options |-> options,
               views |-> <<View>>]]
        @@ relatedBegin(options, getRelatedNotes(path, options.depth))

-----------------------------------------------------------------------------

(* tools/create-note.ts and tools/get-note.ts                               *)

\* an absent content argument, and a content given as a string
NoContent == [kind |-> "undefined", val |-> <<>>]
Text(s) == [kind |-> "string", val |-> s]

\* String.prototype.endsWith
EndsWith(s, t) == Len(t) <= Len(s) /\ SubSeq(s, Len(s) - Len(t) + 1, Len(s)) = t

\* vault.getAbstractFileByPath: the file or the folder at the path, or none
getAbstractFileByPath(p) ==
    IF p \in files THEN "file" ELSE IF p \in folders THEN "folder" ELSE "none"

\* the vault as the tools change it
Vault == [files |-> files, folders |-> folders, content |-> content, stat |-> stat,
          cache |-> cache, tags |-> tags]

\* a boolean option, false when absent
optionOf(option) == option = "true"

\* folder.replace(/\/$/, ''): the folder without one trailing slash
stripSlash(folder) ==
    IF EndsWith(folder, <<"/">>) THEN SubSeq(folder, 1, Len(folder) - 1) ELSE folder

\* the full path createNote composes from the filename and the folder
fullPathOf(filename, folder) ==
    LET normalizedFilename ==
            IF EndsWith(filename, <<".", "m", "d">>) THEN filename
            ELSE filename \o <<".", "m", "d">>
    IN  IF folder # Null THEN stripSlash(folder) \o <<"/">> \o normalizedFilename
        ELSE normalizedFilename

\* TFile.name: the file name without its folder
Filename(p) == SubSeq(p, NameStart(p), Len(p))

\* vault.modify(file, text): the vault with the text written to the file
modify(v, p, text) == [v EXCEPT !.content = [v.content EXCEPT ![p] = text]]

\* vault.create(path, text): the vault with a new file holding the text
create(v, p, text) ==
    [v EXCEPT !.files = v.files \cup {p},
              !.content = (p :> text) @@ v.content,
              !.stat = (p :> [ctime |-> 0, mtime |-> 0]) @@ v.stat,
              !.cache = (p :> [links |-> <<>>, embeds |-> <<>>]) @@ v.cache,
              !.tags = (p :> {}) @@ v.tags]

\* createNote that ignores the existing file when overwrite is not set
createNote_OverwriteAlways(filename, text, options) ==
    IF filename = Null
    THEN [at |-> "none", response |-> createErrorResponse("MISSING_PARAMETER", <<>>),
          vault |-> Vault]
    ELSE IF text.kind = "undefined"
    THEN [at |-> "none", response |-> createErrorResponse("MISSING_PARAMETER", <<>>),
          vault |-> Vault]
    ELSE LET fullPath == fullPathOf(filename, options.folder)
             overwrite == optionOf(options.overwrite)
             existingFile == getAbstractFileByPath(fullPath)
             folder == getAbstractFileByPath(options.folder)
         IN  IF ~validatePath(fullPath)
             THEN [at |-> "none", response |-> createErrorResponse("INVALID_PATH", <<>>),
                   vault |-> Vault]
             ELSE IF existingFile = "file"
             THEN [at |-> "modify", vault |-> Vault]
             ELSE IF existingFile = "folder"
             THEN [at |-> "none", response |-> createErrorResponse("PATH_IS_FOLDER", <<>>),
                   vault |-> Vault]
             ELSE IF options.folder # Null /\ folder = "none"
             THEN [at |-> "createFolder", vault |-> Vault]
             ELSE IF options.folder # Null /\ folder = "file"
             THEN [at |-> "none",
                   response |-> createErrorResponse("FOLDER_CREATE_ERROR", <<>>),
                   vault |-> Vault]
             ELSE [at |-> "create", vault |-> Vault]

\* createNote that makes the folder before it validates the composed path
createNote_FolderFirst(filename, text, options) ==
    IF filename = Null
    THEN [at |-> "none", response |-> createErrorResponse("MISSING_PARAMETER", <<>>),
          vault |-> Vault]
    ELSE IF text.kind = "undefined"
    THEN [at |-> "none", response |-> createErrorResponse("MISSING_PARAMETER", <<>>),
          vault |-> Vault]
    ELSE LET fullPath == fullPathOf(filename, options.folder)
             overwrite == optionOf(options.overwrite)
             existingFile == getAbstractFileByPath(fullPath)
             folder == getAbstractFileByPath(options.folder)
         IN  IF ~validatePath(fullPath)
             THEN [at |-> "none", response |-> createErrorResponse("INVALID_PATH", <<>>),
                   vault |-> IF options.folder # Null /\ folder = "none"
                             THEN [Vault EXCEPT !.folders = @ \cup {stripSlash(options.folder)}]
                             ELSE Vault]
             ELSE IF existingFile # "none" /\ ~overwrite
             THEN [at |-> "none", response |-> createErrorResponse("FILE_EXISTS", <<>>),
                   vault |-> Vault]
             ELSE IF existingFile = "file"
             THEN [at |-> "modify", vault |-> Vault]
             ELSE IF existingFile = "folder"
             THEN [at |-> "none", response |-> createErrorResponse("PATH_IS_FOLDER", <<>>),
                   vault |-> Vault]
             ELSE IF options.folder # Null /\ folder = "none"
             THEN [at |-> "createFolder", vault |-> Vault]
             ELSE IF options.folder # Null /\ folder = "file"
             THEN [at |-> "none",
                   response |-> createErrorResponse("FOLDER_CREATE_ERROR", <<>>),
                   vault |-> Vault]
             ELSE [at |-> "create", vault |-> Vault]

\* createNote up to its first wait for the host: the response when it returns
\* at once, else the operation of the host it waits for, modify on the file
\* at the path when overwrite is set, createFolder when nothing stands at the
\* path of the folder, create otherwise; and the vault it leaves
createNote(filename, text, options) ==
    IF filename = Null
    THEN [at |-> "none", response |-> createErrorResponse("MISSING_PARAMETER", <<>>),
          vault |-> Vault]
    ELSE IF text.kind = "undefined"
    THEN [at |-> "none", response |-> createErrorResponse("MISSING_PARAMETER", <<>>),
          vault |-> Vault]
    ELSE LET fullPath == fullPathOf(filename, options.folder)
             overwrite == optionOf(options.overwrite)
             existingFile == getAbstractFileByPath(fullPath)
             folder == getAbstractFileByPath(options.folder)
         IN  IF ~validatePath(fullPath)
             THEN [at |-> "none", response |-> createErrorResponse("INVALID_PATH", <<>>),
                   vault |-> Vault]
             ELSE IF existingFile # "none" /\ ~overwrite
             THEN [at |-> "none", response |-> createErrorResponse("FILE_EXISTS", <<>>),
                   vault |-> Vault]
             ELSE IF existingFile = "file"
             THEN [at |-> "modify", vault |-> Vault]
             ELSE IF existingFile = "folder"
             THEN [at |-> "none", response |-> createErrorResponse("PATH_IS_FOLDER", <<>>),
                   vault |-> Vault]
             ELSE IF options.folder # Null /\ folder = "none"
             THEN [at |-> "createFolder", vault |-> Vault]
             ELSE IF options.folder # Null /\ folder = "file"
             THEN [at |-> "none",
                   response |-> createErrorResponse("FOLDER_CREATE_ERROR", <<>>),
                   vault |-> Vault]
             ELSE [at |-> "create", vault |-> Vault]

\* the response of createNote once the note is written; size is
\* content.length, which is undefined for a content that is no string, so
\* that the response then has no size
createResponse(call, overwritten) ==
    LET fullPath == fullPathOf(call.filename, call.options.folder)
    IN  IF call.text.kind = "string"
        THEN createSuccessResponse(
                 [path |-> fullPath, name |-> Filename(fullPath),
                  basename |-> Basename(fullPath), size |-> Len(call.text.val),
                  overwritten |-> overwritten,
                  opened |-> optionOf(call.options.open_after)])
        ELSE createSuccessResponse(
                 [path |-> fullPath, name |-> Filename(fullPath),
                  basename |-> Basename(fullPath), overwritten |-> overwritten,
                  opened |-> optionOf(call.options.open_after)])

\* what createNote returns, r, as the call it leaves suspended or the record
\* of its return
createBegun(filename, text, options, r) ==
    IF r.at = "none"
    THEN [done |-> TRUE,
          out |-> [response |-> r.response, reads |-> {}, written |-> {}],
          call |-> [tool |-> "create_note", filename |-> filename, text |-> text,
                    options |-> options, fresh |-> FALSE],
          vault |-> r.vault]
    ELSE [done |-> FALSE,
          call |-> [tool |-> "create_note", filename |-> filename, text |-> text,
                    options |-> options, fresh |-> r.at # "modify", at |-> r.at],
          vault |-> r.vault]

\* a call of createNote up to its first wait for the host
createBegin(filename, text, options) ==
    createBegun(filename, text, options, createNote(filename, text, options))

\* TFile.extension: what follows the last dot of the file name
Extension(p) == IF ExtDot(p) = 0 THEN <<>> ELSE SubSeq(p, ExtDot(p) + 1, Len(p))

\* isTextFile: the extension is one of the text extensions
isTextFile(file) ==
    ToLower(Extension(file)) \in
        {<<"m", "d">>, <<"t", "x", "t">>, <<"j", "s", "o", "n">>, <<"y", "a", "m", "l">>,
         <<"y", "m", "l">>, <<"c", "s", "v">>, <<"h", "t", "m", "l">>, <<"x", "m", "l">>}

\* the notes getNote puts after a content it cut
PreviewNote ==
    <<"\n", "\n", ".", ".", ".", " ", "(", "p", "r", "e", "v", "i", "e", "w",
      " ", "m", "o", "d", "e", " ", "-", " ", "u", "s", "e", " ", "p", "r",
      "e", "v", "i", "e", "w", ":", "f", "a", "l", "s", "e", " ", "f", "o",
      "r", " ", "f", "u", "l", "l", " ", "c", "o", "n", "t", "e", "n", "t",
      ")">>

TooLargeNote ==
    <<"\n", "\n", ".", ".", ".", " ", "(", "f", "i", "l", "e", " ", "t", "o",
      "o", " ", "l", "a", "r", "g", "e", " ", "-", " ", "a", "u", "t", "o",
      "m", "a", "t", "i", "c", "a", "l", "l", "y", " ", "t", "r", "u", "n",
      "c", "a", "t", "e", "d", ")">>

\* the option max_content_length with its default
maxContentLengthOf(max_content_length) ==
    IF max_content_length.kind = "undefined" THEN 50000 ELSE max_content_length.val

\* the checks of getNote before it reads the note: the error response, or a
\* success envelope without data when the checks pass
getNoteChecks(path) ==
    IF path = Null THEN createErrorResponse("MISSING_PARAMETER", <<>>)
    ELSE IF ~validatePath(path) THEN createErrorResponse("INVALID_PATH", <<>>)
    ELSE IF getFileByPath(path) = Null
    THEN createErrorResponse("NOTE_NOT_FOUND", findSimilarPaths(path, 3))
    ELSE IF ~isTextFile(path) THEN createErrorResponse("UNSUPPORTED_FILE_TYPE", <<>>)
    ELSE createSuccessResponse(<<>>)

\* getNote that returns the text as it was read
getNote_KeepFrontmatter(path, options, views) ==
    IF Len(views) < 2 THEN [done |-> FALSE]
    ELSE IF ~adapterRead(views[1], path).ok
    THEN [done |-> TRUE,
          out |-> [response |-> createErrorResponse("READ_ERROR", <<>>),
                   reads |-> {path}, written |-> {}]]
    ELSE IF options.include_metadata # "false" /\ "getCache" \in views[2].throwing
    THEN [done |-> TRUE,
          out |-> [response |-> createErrorResponse("READ_ERROR", <<>>),
                   reads |-> {path}, written |-> {}]]
    ELSE LET text == adapterRead(views[1], path).text
             v == views[2]
             preview == optionOf(options.preview)
             max_content_length == maxContentLengthOf(options.max_content_length)
             frontmatter == extractFrontmatter(text)
             contentWithoutFrontmatter == text
             cut == Len(contentWithoutFrontmatter) > (IF preview THEN 500
                                                      ELSE max_content_length)
         IN  [done |-> TRUE,
              out |-> [response |-> createSuccessResponse(
                  [path |-> path, name |-> Filename(path), basename |-> Basename(path),
                   extension |-> Extension(path), size_bytes |-> Len(v.content[path]),
                   created |-> v.stat[path].ctime, modified |-> v.stat[path].mtime,
                   content |-> IF cut
                               THEN Substring(contentWithoutFrontmatter, 0, 500)
                                    \o (IF preview THEN PreviewNote ELSE TooLargeNote)
                               ELSE contentWithoutFrontmatter,
                   is_preview |-> preview \/ cut,
                   has_frontmatter |-> frontmatter # <<>>,
                   frontmatter |-> frontmatter,
                   has_metadata |-> options.include_metadata # "false"
                                    /\ path \in DOMAIN v.cache,
                   metadata |-> IF options.include_metadata # "false"
                                   /\ path \in DOMAIN v.cache
                                THEN [tags |-> v.tags[path], links |-> v.cache[path].links,
                                      embeds |-> v.cache[path].embeds]
                                ELSE [tags |-> {}, links |-> <<>>, embeds |-> <<>>]]),
                  reads |-> {path}, written |-> {}]]

\* getNote from its read on. The function waits for the host at the read:
\* the read is answered with the content of the vault views[1], in which it
\* was issued, and the function goes on in the vault views[2], where it takes
\* the stat and the metadata of the file; a lookup metadataCache.getCache
\* that throws ends in the catch block like a read that fails. It has
\* returned when views holds both; reads are the notes whose content it read.
getNote(path, options, views) ==
    IF Len(views) < 2 THEN [done |-> FALSE]
    ELSE IF ~adapterRead(views[1], path).ok
    THEN [done |-> TRUE,
          out |-> [response |-> createErrorResponse("READ_ERROR", <<>>),
                   reads |-> {path}, written |-> {}]]
    ELSE IF options.include_metadata # "false" /\ "getCache" \in views[2].throwing
    THEN [done |-> TRUE,
          out |-> [response |-> createErrorResponse("READ_ERROR", <<>>),
                   reads |-> {path}, written |-> {}]]
    ELSE LET text == adapterRead(views[1], path).text
             v == views[2]
             preview == optionOf(options.preview)
             max_content_length == maxContentLengthOf(options.max_content_length)
             frontmatter == extractFrontmatter(text)
             contentWithoutFrontmatter == removeFrontmatter(text)
             cut == Len(contentWithoutFrontmatter) > (IF preview THEN 500
                                                      ELSE max_content_length)
         IN  [done |-> TRUE,
              out |-> [response |-> createSuccessResponse(
                  [path |-> path, name |-> Filename(path), basename |-> Basename(path),
                   extension |-> Extension(path), size_bytes |-> Len(v.content[path]),
                   created |-> v.stat[path].ctime, modified |-> v.stat[path].mtime,
                   content |-> IF cut
                               THEN Substring(contentWithoutFrontmatter, 0, 500)
                                    \o (IF preview THEN PreviewNote ELSE TooLargeNote)
                               ELSE contentWithoutFrontmatter,
                   is_preview |-> preview \/ cut,
                   has_frontmatter |-> frontmatter # <<>>,
                   frontmatter |-> frontmatter,
                   has_metadata |-> options.include_metadata # "false"
                                    /\ path \in DOMAIN v.cache,
                   metadata |-> IF options.include_metadata # "false"
                                   /\ path \in DOMAIN v.cache
                                THEN [tags |-> v.tags[path], links |-> v.cache[path].links,
                                      embeds |-> v.cache[path].embeds]
                                ELSE [tags |-> {}, links |-> <<>>, embeds |-> <<>>]]),
                  reads |-> {path}, written |-> {}]]

\* a call of getNote up to its wait for the read: answered at once when a
\* check fails
getNoteBegin(path, options) ==
    [done |-> ~getNoteChecks(path).success,
     out |-> [response |-> getNoteChecks(path), reads |-> {}, written |-> {}],
     call |-> [tool |-> "get_note", path |-> path, options |-> options,
               views |-> <<View>>]]

-----------------------------------------------------------------------------

(* tools/append-to-note.ts                                                 *)

\* the options position and ensure_newline with their defaults
positionOf(position) == IF position = "undefined" THEN "end" ELSE position
ensureNewlineOf(ensure_newline) == ensure_newline # "false"

\* appendChecks that reports a missing note under a code of its own
appendChecks_OtherCode(path, text) ==
    IF path = Null THEN createErrorResponse("MISSING_PARAMETER", <<>>)
    ELSE IF text = Null THEN createErrorResponse("MISSING_PARAMETER", <<>>)
    ELSE IF ~validatePath(path) THEN createErrorResponse("INVALID_PATH", <<>>)
    ELSE IF getFileByPath(path) = Null
    THEN createErrorResponse("FILE_NOT_FOUND", findSimilarPaths(path, 3))
    ELSE createSuccessResponse(<<>>)

\* the checks of appendToNote before it reads the note: the error response,
\* or a success envelope without data when the checks pass
appendChecks(path, text) ==
    IF path = Null THEN createErrorResponse("MISSING_PARAMETER", <<>>)
    ELSE IF text = Null THEN createErrorResponse("MISSING_PARAMETER", <<>>)
    ELSE IF ~validatePath(path) THEN createErrorResponse("INVALID_PATH", <<>>)
    ELSE IF getFileByPath(path) = Null
    THEN createErrorResponse("NOTE_NOT_FOUND", findSimilarPaths(path, 3))
    ELSE createSuccessResponse(<<>>)

\* newContentOf with one newline after a content put at the start
newContentOf_StartOneNewline(currentContent, text, options) ==
    LET position == positionOf(options.position)
        ensure_newline == ensureNewlineOf(options.ensure_newline)
        frontmatter == extractFrontmatter(currentContent)
        frontmatterBlock == Opening \o frontmatter \o Closing
        afterFrontmatter == Substring(currentContent, Len(frontmatterBlock),
                                      Len(currentContent))
        separator == (IF ensure_newline /\ ~EndsWith(currentContent, <<"\n">>)
                      THEN <<"\n">> ELSE <<>>)
                     \o (IF ensure_newline /\ ~StartsWith(text, <<"\n">>)
                         THEN <<"\n">> ELSE <<>>)
    IN  CASE position = "start" ->
                 text \o (IF ensure_newline THEN <<"\n">> ELSE <<>>) \o currentContent
          [] position = "after_frontmatter" ->
                 IF frontmatter # <<>>
                 THEN frontmatterBlock \o text
                      \o (IF ensure_newline THEN <<"\n">> ELSE <<>>) \o afterFrontmatter
                 ELSE text \o (IF ensure_newline THEN <<"\n", "\n">> ELSE <<>>)
                      \o currentContent
          [] OTHER -> currentContent \o separator \o text

\* the content appendToNote writes back, from the content it read
newContentOf(currentContent, text, options) ==
    LET position == positionOf(options.position)
        ensure_newline == ensureNewlineOf(options.ensure_newline)
        frontmatter == extractFrontmatter(currentContent)
        frontmatterBlock == Opening \o frontmatter \o Closing
        afterFrontmatter == Substring(currentContent, Len(frontmatterBlock),
                                      Len(currentContent))
        separator == (IF ensure_newline /\ ~EndsWith(currentContent, <<"\n">>)
                      THEN <<"\n">> ELSE <<>>)
                     \o (IF ensure_newline /\ ~StartsWith(text, <<"\n">>)
                         THEN <<"\n">> ELSE <<>>)
    IN  CASE position = "start" ->
                 text \o (IF ensure_newline THEN <<"\n", "\n">> ELSE <<>>) \o currentContent
          [] position = "after_frontmatter" ->
                 IF frontmatter # <<>>
                 THEN frontmatterBlock \o text
                      \o (IF ensure_newline THEN <<"\n">> ELSE <<>>) \o afterFrontmatter
                 ELSE text \o (IF ensure_newline THEN <<"\n", "\n">> ELSE <<>>)
                      \o currentContent
          [] OTHER -> currentContent \o separator \o text

\* the response of a successful appendToNote
appendResponse(path, text, options, currentContent) ==
    createSuccessResponse(
        [path |-> path, position |-> positionOf(options.position),
         appended_length |-> Len(text), original_length |-> Len(currentContent),
         new_length |-> Len(newContentOf(currentContent, text, options)),
         content_preview |-> IF Len(text) > 200 THEN Substring(text, 0, 200) \o Ellipsis
                             ELSE text])

\* the response of a successful appendToNote whose content is no string:
\* content.length is undefined, so that appended_length is left out of the
\* JSON text and the preview is the content itself
appendResponseOf(call) ==
    IF call.isString
    THEN appendResponse(call.path, call.text, call.options, call.read.text)
    ELSE createSuccessResponse(
             [path |-> call.path, position |-> positionOf(call.options.position),
              original_length |-> Len(call.read.text),
              new_length |-> Len(newContentOf(call.read.text, call.text, call.options)),
              content_preview |-> [kind |-> "number", val |-> call.text]])

\* a call of appendToNote up to its wait for the read: it is answered at once
\* when a check fails, and left suspended with the read it has issued
\* otherwise
appendBegun(path, text, options, checks) ==
    [done |-> ~checks.success,
     out |-> [response |-> checks, original |-> <<>>, reads |-> {}, written |-> {}],
     call |-> [tool |-> "append_to_note", path |-> path, text |-> text,
               options |-> options, at |-> "read", isString |-> TRUE,
               read |-> adapterRead(View, path)]]

\* appendToNote from its checks up to its wait for the read
appendBegin(path, text, options) ==
    appendBegun(path, text, options, appendChecks(path, text))

\* appendToNote called with a content of the kind given: the text of a
\* number is its digits
appendTyped(kind, b) == [b EXCEPT !.call.isString = kind # "number"]

\* content.startsWith throws on a content that is no string: it is called
\* in the case 'end' of the switch, which is its default case and so that of
\* every position but 'start' and 'after_frontmatter', with ensure_newline on
separatorThrows(call) ==
    /\ ~call.isString
    /\ positionOf(call.options.position) \notin {"start", "after_frontmatter"}
    /\ ensureNewlineOf(call.options.ensure_newline)

\* appendToNote from the answer to its read on, up to its wait for the write:
\* the catch block answers APPEND_ERROR when the read was rejected or the
\* composition of the new content throws; else the write is issued
appendResumed(call) ==
    IF ~call.read.ok \/ separatorThrows(call)
    THEN [done |-> TRUE,
          out |-> [response |-> createErrorResponse("APPEND_ERROR", <<>>),
                   original |-> <<>>, reads |-> {call.path}, written |-> {}]]
    ELSE [done |-> FALSE, call |-> [call EXCEPT !.at = "write"]]

-----------------------------------------------------------------------------

(* tools/search-notes.ts                                                   *)

\* an absent option, and a limit given as a number
LimitUndefined == [kind |-> "undefined", val |-> 0]
LimitNumber(n) == [kind |-> "number", val |-> n]

\* the limit the handler works with: 10 by default
limitOf(limit) == IF limit.kind = "undefined" THEN 10 ELSE limit.val

\* the sort the handler works with: relevance by default
sortByOf(sort_by) == IF sort_by = "undefined" THEN "relevance" ELSE sort_by

RECURSIVE SplitWords(_, _)
\* String.prototype.split(' '): the words of s; word is the word being read
SplitWords(s, word) ==
    IF s = <<>> THEN <<word>>
    ELSE IF Head(s) = " " THEN <<word>> \o SplitWords(Tail(s), <<>>)
    ELSE SplitWords(Tail(s), Append(word, Head(s)))

\* titleScore with the exact match scored as a partial match
titleScore_ExactAsPartial(titleLower, queryLower) ==
    IF titleLower = queryLower THEN 50
    ELSE IF Includes(titleLower, queryLower) THEN 50
    ELSE IF \E word \in Range(SplitWords(titleLower, <<>>)) : Includes(word, queryLower)
         THEN 25
    ELSE 0

\* the title part of the relevance score
titleScore(titleLower, queryLower) ==
    IF titleLower = queryLower THEN 100
    ELSE IF Includes(titleLower, queryLower) THEN 50
    ELSE IF \E word \in Range(SplitWords(titleLower, <<>>)) : Includes(word, queryLower)
         THEN 25
    ELSE 0

RECURSIVE countFrom(_, _, _)
\* the matches of the term in s from position i on, taken from the left
countFrom(s, t, i) ==
    IF i + Len(t) - 1 > Len(s) THEN 0
    ELSE IF OccursAt(s, t, i) THEN 1 + countFrom(s, t, i + Len(t))
    ELSE countFrom(s, t, i + 1)

\* (contentLower.match(new RegExp(escapeRegex(queryLower), 'g')) || []).length
occurrencesOf(contentLower, queryLower) == countFrom(contentLower, queryLower, 1)

\* the tag filter: the file holds the tag, with or without its leading #
hasTag(v, file, tag) ==
    LET normalizedTag == IF StartsWith(tag, <<"#">>) THEN tag ELSE <<"#">> \o tag
    IN  \E t \in v.tags[file] : t = normalizedTag \/ t = tag \/ t = <<"#">> \o tag

\* the filters of the loop of searchNotes without the folder filter
passesFilters_NoFolderFilter(v, file, folder, tag) ==
    tag = Null \/ hasTag(v, file, tag)

\* the filters at the head of the loop of searchNotes: the folder filter and
\* the tag filter, each when it is set, in the vault v
passesFilters(v, file, folder, tag) ==
    /\ folder = Null \/ StartsWith(file, folder)
    /\ tag = Null \/ hasTag(v, file, tag)

\* one turn of the loop of searchNotes from the answer to its read on, in the
\* vault v the turn finds then: whether the file is a match, and its result
\* record
searchFile(v, file, query, read) ==
    LET queryLower == ToLower(query)
        title == titleScore(ToLower(Basename(file)), queryLower)
        text == read.text
        occurrences == occurrencesOf(ToLower(text), queryLower)
        contentMatch == occurrences > 0
        score == title + (IF contentMatch THEN Min(occurrences * 5, 50) ELSE 0)
        snippet == IF contentMatch THEN extractSnippet(text, query, 200)
                   ELSE IF score > 0
                        THEN Trim(Substring(text, 0, 200))
                             \o (IF Len(text) > 200 THEN Ellipsis ELSE <<>>)
                   ELSE <<>>
    IN  IF ~read.ok THEN [matched |-> FALSE]
        ELSE IF score > 0 \/ contentMatch
             THEN [matched |-> TRUE,
                   result |-> [path |-> file, title |-> Basename(file), snippet |-> snippet,
                               created |-> v.stat[file].ctime,
                               modified |-> v.stat[file].mtime,
                               size |-> Len(v.content[file]), score |-> score]]
        ELSE [matched |-> FALSE]

\* the results with the result of one turn of the loop
pushed(results, r) == IF r.matched THEN Append(results, r.result) ELSE results

\* the tag filter throws in the vault v: the file has passed the folder
\* filter, a tag is asked for, and the lookup metadataCache.getFileCache fails
tagLookupThrows(v, file, folder, tag) ==
    /\ folder = Null \/ StartsWith(file, folder)
    /\ tag # Null
    /\ "getCache" \in v.throwing

RECURSIVE searchLoop(_, _, _, _, _, _, _)
\* the loop of searchNotes over the markdown files. The function waits for
\* the host at each read: views[n] is the vault in which it runs its n-th
\* stretch, a read issued in views[n] is answered with the content of then,
\* and the function goes on in views[n + 1]. The loop stops where the views
\* end; n tells the stretch it has reached, threw that the loop was left by
\* an exception.
searchLoop(fileList, query, folder, tag, results, n, views) ==
    IF fileList = <<>> \/ n > Len(views)
    THEN [results |-> results, n |-> n, threw |-> FALSE]
    ELSE IF tagLookupThrows(views[n], Head(fileList), folder, tag)
    THEN [results |-> results, n |-> n, threw |-> TRUE]
    ELSE IF ~passesFilters(views[n], Head(fileList), folder, tag)
    THEN searchLoop(Tail(fileList), query, folder, tag, results, n, views)
    ELSE IF n = Len(views) THEN [results |-> results, n |-> n + 1, threw |-> FALSE]
    ELSE searchLoop(Tail(fileList), query, folder, tag,
                    pushed(results,
                           searchFile(views[n + 1], Head(fileList), query,
                                      adapterRead(views[n], Head(fileList)))),
                    n + 1, views)

\* the record sent for a result: the score is left out
outputResult(r) ==
    [path |-> r.path, title |-> r.title, snippet |-> r.snippet, created |-> r.created,
     modified |-> r.modified, size |-> r.size]

\* searchResponse with the limit applied before the sort
searchResponse_LimitBeforeSort(query, folder, tag, limit, sort_by, results) ==
    LET sorted == sortResults(Slice(results, limitOf(limit)), sortByOf(sort_by))
    IN  [response |-> createSuccessResponse(
            [query |-> query,
             filters |-> [folder |-> folder, tag |-> tag, sort_by |-> sortByOf(sort_by)],
             total_matches |-> Len(results),
             returned_count |-> Len(sorted),
             results |-> [i \in 1..Len(sorted) |-> outputResult(sorted[i])]]),
         matches |-> results]

\* the end of searchNotes, after its loop: the results are sorted and cut to
\* the limit; matches is the results array before the sort
searchResponse(query, folder, tag, limit, sort_by, results) ==
    LET sorted == sortResults(results, sortByOf(sort_by))
        limitedResults == Slice(sorted, limitOf(limit))
    IN  [response |-> createSuccessResponse(
            [query |-> query,
             filters |-> [folder |-> folder, tag |-> tag, sort_by |-> sortByOf(sort_by)],
             total_matches |-> Len(results),
             returned_count |-> Len(limitedResults),
             results |-> [i \in 1..Len(limitedResults) |->
                             outputResult(limitedResults[i])]]),
         matches |-> results]

\* searchNotes once its loop has come to run: it has returned when the loop
\* has not stopped at the end of the views, with SEARCH_ERROR from its catch
\* block when the loop threw
searchReturn(query, folder, tag, limit, sort_by, views, run) ==
    IF run.threw
    THEN [done |-> TRUE,
          out |-> [response |-> createErrorResponse("SEARCH_ERROR", <<>>),
                   matches |-> <<>>]]
    ELSE IF run.n > Len(views) THEN [done |-> FALSE]
    ELSE [done |-> TRUE,
          out |-> searchResponse(query, folder, tag, limit, sort_by, run.results)]

\* searchNotes in the vaults views[1], views[2], ... of its stretches: whether
\* it has returned, and then its response and its results array
searchNotes(query, folder, tag, limit, sort_by, views) ==
    IF query = Null
    THEN [done |-> TRUE,
          out |-> [response |-> createErrorResponse("MISSING_PARAMETER", <<>>),
                   matches |-> <<>>]]
    ELSE searchReturn(query, folder, tag, limit, sort_by, views,
                      searchLoop(getMarkdownFiles(views[1]), query, folder, tag, <<>>,
                                 1, views))

\* a call of searchNotes up to its first wait for the host, and the call it
\* leaves suspended when it waits
searchBegin(query, folder, tag, limit, sort_by) ==
    [call |-> [tool |-> "search_notes", query |-> query, folder |-> folder, tag |-> tag,
               limit |-> limit, sort_by |-> sort_by, views |-> <<View>>]]
        @@ searchNotes(query, folder, tag, limit, sort_by, <<View>>)

-----------------------------------------------------------------------------
(* mcp-server.ts: the JSON-RPC handler of the HTTP server                   *)

\* a JSON value that is a number; 5 stands for every number that is not 0
Number5 == [kind |-> "number", val |-> <<"5">>]

\* the id of a request: absent, or a number
NoId == [kind |-> "undefined", val |-> 0]
Id(n) == [kind |-> "number", val |-> n]

\* the names of the tools handleToolsList advertises
AdvertisedTools ==
    {"search_notes", "get_note", "get_related_notes", "append_to_note", "create_note"}

\* a JSON-RPC response as handleRequest writes it: a result, an error with its
\* code, or the status object that answers a notification
RpcResult(id, text) == [kind |-> "result", id |-> id, code |-> 0, text |-> text]
RpcError(id, code) == [kind |-> "error", id |-> id, code |-> code, text |-> <<>>]
StatusOk == [kind |-> "status", id |-> NoId, code |-> 0, text |-> <<>>]

\* the tool throws instead of returning an envelope: the string methods it
\* calls on the argument before its try block are missing on a number
\* (createNote calls them inside its try block and answers CREATE_ERROR);
\* appendToNote reaches them only with a content that is not falsy
toolThrows(name, args) ==
    \/ name = "search_notes" /\ args.query.kind = "number"
    \/ name \in {"get_note", "get_related_notes"} /\ args.path.kind = "number"
    \/ name = "append_to_note" /\ args.path.kind = "number"
           /\ args.content.val # Null

\* the switch of handleToolsCall over the advertised tools: the call of the
\* tool up to its first wait for the host
toolBegin(name, args) ==
    CASE name = "search_notes" ->
             searchBegin(args.query.val, Null, Null, LimitUndefined, "undefined")
      [] name = "get_note" ->
             getNoteBegin(args.path.val,
                          [preview |-> "undefined", include_metadata |-> "undefined",
                           max_content_length |-> LimitUndefined])
      [] name = "get_related_notes" ->
             getRelatedNotesWithOptions(
                 args.path.val,
                 [depth |-> DepthUndefined, include_snippets |-> "undefined",
                  max_snippet_length |-> LimitUndefined])
      [] name = "append_to_note" ->
             appendTyped(args.content.kind,
                         appendBegin(args.path.val, args.content.val,
                                     [position |-> args.position,
                                      ensure_newline |-> "undefined"]))
      [] name = "create_note" ->
             IF args.filename.kind = "number" /\ args.content.kind # "undefined"
             THEN [done |-> TRUE,
                   out |-> [response |-> createErrorResponse("CREATE_ERROR", <<>>)]]
             ELSE createBegin(args.filename.val, args.content,
                              [folder |-> Null, open_after |-> "undefined",
                               overwrite |-> args.overwrite])

\* the call of the tool with the vault it leaves: createNote alone tells it
toolResult(name, args) == toolBegin(name, args) @@ [vault |-> Vault]

\* the JSON-RPC result that carries the envelope the tool returned
toolAnswer(id, out) == RpcResult(id, out.response)

\* handleToolsCall from the call of the tool on: the JSON-RPC response when
\* the tool has returned, the call it waits for otherwise
toolCalled(id, b) ==
    IF b.done THEN [done |-> TRUE, response |-> toolAnswer(id, b.out), vault |-> b.vault]
    ELSE [done |-> FALSE, call |-> b.call, vault |-> b.vault]

\* handleToolsCall: the JSON-RPC response to a tools/call request, or the
\* call of the tool it waits for
handleToolsCall(request) ==
    IF request.params.name \notin AdvertisedTools
    THEN [done |-> TRUE, response |-> RpcError(request.id, -32603), vault |-> Vault]
    ELSE IF toolThrows(request.params.name, request.params.arguments)
    THEN [done |-> TRUE, response |-> RpcError(request.id, -32603), vault |-> Vault]
    ELSE toolCalled(request.id,
                    toolResult(request.params.name, request.params.arguments))

\* !request.id && request.method?.startsWith('notifications/'); a method is
\* the sequence of its segments between the slashes
isNotification(request) ==
    /\ request.id.kind = "undefined" \/ request.id.val = 0
    /\ Len(request.method) >= 2 /\ request.method[1] = "notifications"

\* the switch of handleRequest over the method
routed(request) ==
    IF request.method = <<"initialize">>
    THEN [done |-> TRUE, response |-> RpcResult(request.id, <<>>), vault |-> Vault]
    ELSE IF request.method = <<"tools", "list">>
    THEN [done |-> TRUE, response |-> RpcResult(request.id, <<>>), vault |-> Vault]
    ELSE IF request.method = <<"tools", "call">> THEN handleToolsCall(request)
    ELSE [done |-> TRUE, response |-> RpcError(request.id, -32601), vault |-> Vault]

\* res.writeHead(200) and res.end with the response
written200(response) == <<[status |-> 200, response |-> response]>>

\* handleRequest from its switch on: what it writes once the response is at
\* hand, the call it waits for otherwise
respond(r) ==
    IF r.done THEN [done |-> TRUE, writes |-> written200(r.response), vault |-> r.vault]
    ELSE r

\* handleRequest up to its first wait for the host: what is written to the
\* HTTP response of a POST body, in order, or the call of the tool it waits
\* for; and the vault it leaves
handleRequest(body) ==
    IF body.json = "invalid" \/ body.json = "null"
    THEN [done |-> TRUE, writes |-> <<[status |-> 500, response |-> RpcError(NoId, -32603)]>>,
          vault |-> Vault]
    ELSE IF isNotification(body.request)
    THEN [done |-> TRUE, writes |-> <<[status |-> 200, response |-> StatusOk]>>,
          vault |-> Vault]
    ELSE respond(routed(body.request))

-----------------------------------------------------------------------------
(* mcp-server.ts and main.ts: the lifecycle of the HTTP server              *)

\* no step of the lifecycle or of the bridge has been taken
NoStep == [op |-> "none", resolved |-> 0, created |-> FALSE, threw |-> FALSE]

\* the MCPServer as its constructor leaves it, the plugin before onload, with
\* the port and the enabled flag loadSettings will read, and the bridge before
\* its first line
NotStartedOn(port, enabled) ==
    /\ server = 0
    /\ instances = <<>>
    /\ plugin = [mcpServer |-> FALSE, notice |-> "none", port |-> port,
                 enabled |-> enabled, phase |-> "none", unloading |-> 0]
    /\ step = NoStep
    /\ stdout = <<>>

\* the same on a port that listen accepts
NotStarted == NotStartedOn("valid", TRUE)

\* isRunning: this.server !== null
isRunning == server # 0

\* the instances that exist: created and not closed
Existing == {i \in 1..Len(instances) : instances[i].state # "closed"}

\* a new instance in state s, no close callback registered on it
NewInstance(s) == [state |-> s, callbacks |-> 0]

\* start that creates a server whether or not one is set
start_Always ==
    IF plugin.port = "bad"
    THEN [server |-> Len(instances) + 1,
          instances |-> Append(instances, NewInstance("idle")),
          created |-> TRUE, threw |-> TRUE]
    ELSE [server |-> Len(instances) + 1,
          instances |-> Append(instances, NewInstance("binding")),
          created |-> TRUE, threw |-> FALSE]

\* start: returns at once when this.server is set; else createServer, the
\* assignment to this.server, and listen, which throws at once on a port
\* outside the range of ports and else binds later
start ==
    IF server # 0
    THEN [server |-> server, instances |-> instances, created |-> FALSE, threw |-> FALSE]
    ELSE IF plugin.port = "bad"
    THEN [server |-> Len(instances) + 1,
          instances |-> Append(instances, NewInstance("idle")),
          created |-> TRUE, threw |-> TRUE]
    ELSE [server |-> Len(instances) + 1,
          instances |-> Append(instances, NewInstance("binding")),
          created |-> TRUE, threw |-> FALSE]

\* stop: resolves at once when this.server is null; else registers its
\* callback with close on the instance this.server holds
stop ==
    IF server = 0 THEN [instances |-> instances, resolved |-> 1]
    ELSE [instances |-> [instances EXCEPT ![server].callbacks = @ + 1], resolved |-> 0]

\* the close event of instance i: every callback registered with close is
\* called, each sets this.server to null and resolves its promise
closed(i) ==
    [server |-> 0,
     instances |-> [instances EXCEPT ![i] = [state |-> "closed", callbacks |-> 0]],
     resolved |-> instances[i].callbacks]

\* onload once loadSettings has resolved: nothing when the settings disable
\* the server; else the MCPServer is constructed and started, and the notice
\* tells whether start threw
onload ==
    IF ~plugin.enabled
    THEN [server |-> server, instances |-> instances, created |-> FALSE, threw |-> FALSE,
          mcpServer |-> plugin.mcpServer, notice |-> plugin.notice]
    ELSE [server |-> start.server, instances |-> start.instances,
          created |-> start.created, threw |-> start.threw,
          mcpServer |-> TRUE,
          notice |-> IF start.threw THEN "Failed to start" ELSE "Running on port"]

-----------------------------------------------------------------------------
(* stdio-bridge.js: the bridge between standard input and the HTTP server   *)

\* the error response the bridge writes when it catches an error
BridgeError == RpcError([kind |-> "null", val |-> 0], -32603)

\* handleMessage up to its wait for sendToObsidian: the lines written to
\* standard output for a line that is not forwarded, a blank line or one that
\* JSON.parse rejects or that is null
handleMessage(line) ==
    IF line.json = "blank" THEN [done |-> TRUE, lines |-> <<>>]
    ELSE IF line.json = "invalid" \/ line.json = "null"
    THEN [done |-> TRUE, lines |-> <<BridgeError>>]
    ELSE [done |-> FALSE, lines |-> <<>>]

\* the response of the server has reached the bridge: console.log writes it
\* unless the request is a notification
bridged(notification, writes) ==
    IF notification THEN <<>> ELSE <<writes[1].response>>

-----------------------------------------------------------------------------
(* The calls under way. A tool that waits for the host, for a read, a write *)
(* or the making of a folder, returns to the event loop, and the server     *)
(* handles the requests that arrive meanwhile: the call is kept in pending  *)
(* until the host has answered. Its answer goes where the call came from:   *)
(* to last or to history for a call of the tool itself, to the HTTP         *)
(* response for a call made by handleRequest, and on to the bridge for a    *)
(* request the bridge forwarded.                                            *)

NoCall == [tool |-> "none"]

\* the call belongs to no POST
NoPost == [json |-> "none"]

\* the sequence without its i-th element
Without(s, i) == SubSeq(s, 1, i - 1) \o SubSeq(s, i + 1, Len(s))

\* the vault becomes v
VaultBecomes(v) ==
    /\ files' = v.files
    /\ folders' = v.folders
    /\ content' = v.content
    /\ stat' = v.stat
    /\ cache' = v.cache
    /\ tags' = v.tags

\* the calls begun so far
Begun == Len(pending) + Len(history)

\* a call that waits for the host: where its answer goes, the POST that made
\* it, and the number of calls that had returned when it began
Suspended(into, post, call) ==
    [into |-> into, post |-> post, seen |-> Len(history), call |-> call]

\* what a call keeps while it waits, and is not part of its record
Kept == {"views", "at", "read", "isString"}

\* the record of the call of p that has returned out
Returned(p, out) ==
    out @@ [seen |-> p.seen] @@ [f \in DOMAIN p.call \ Kept |-> p.call[f]]

\* the call of p has returned out: the record goes to history or to last,
\* the JSON-RPC result to the HTTP response
Answers(p, out) ==
    CASE p.into = "history" ->
             /\ history' = Append(history, Returned(p, out))
             /\ UNCHANGED last
      [] p.into = "last" ->
             /\ last = NoCall
             /\ last' = Returned(p, out)
             /\ UNCHANGED history
      [] p.into = "post" ->
             /\ last = NoCall
             /\ last' = [tool |-> "POST", body |-> p.post,
                         writes |-> written200(toolAnswer(p.post.request.id, out))]
             /\ UNCHANGED history
      [] p.into = "bridge" -> UNCHANGED <<last, history>>

\* the i-th suspended call returns out: it is suspended no more, and a
\* request of the bridge has its HTTP response on the way back
Returns(i, out) ==
    /\ Answers(pending[i], out)
    /\ pending' = IF pending[i].into = "bridge"
                  THEN [pending EXCEPT ![i].call =
                            [tool |-> "response",
                             writes |-> written200(
                                 toolAnswer(pending[i].post.request.id, out))]]
                  ELSE Without(pending, i)

\* the i-th suspended call goes on waiting, as call
Waits(i, call) ==
    /\ pending' = [pending EXCEPT ![i].call = call]
    /\ UNCHANGED <<last, history>>

\* a call of a tool begins as b tells: it returns at once, or is suspended
Begins(into, b) ==
    IF b.done
    THEN /\ Answers(Suspended(into, NoPost, b.call), b.out)
         /\ UNCHANGED pending
    ELSE /\ pending' = Append(pending, Suspended(into, NoPost, b.call))
         /\ UNCHANGED <<last, history>>

\* a suspended call of search_notes, get_note or get_related_notes from its
\* first wait on, in the vaults of its views
resumed(call) ==
    CASE call.tool = "search_notes" ->
             searchNotes(call.query, call.folder, call.tag, call.limit, call.sort_by,
                         call.views)
      [] call.tool = "get_note" -> getNote(call.path, call.options, call.views)
      [] call.tool = "get_related_notes" ->
             getRelatedNotesRun(call.path, call.options, call.views)

\* the host answers the read a suspended call waits for: the call goes on in
\* the vault as it is now, up to its next read, to the write it issues or to
\* its return
ReadDone(i) ==
    /\ IF pending[i].call.tool = "append_to_note"
       THEN /\ pending[i].call.at = "read"
            /\ \E r \in {appendResumed(pending[i].call)} :
                   IF r.done THEN Returns(i, r.out) ELSE Waits(i, r.call)
       ELSE /\ pending[i].call.tool \in {"search_notes", "get_note", "get_related_notes"}
            /\ \E call \in {[pending[i].call EXCEPT !.views = Append(@, View)]} :
               \E r \in {resumed(call)} :
                   IF r.done THEN Returns(i, r.out) ELSE Waits(i, call)
    /\ UNCHANGED <<files, cache, content, stat, tags, unreadable, throwing, folders, net>>

\* the response is serialized and sent; nothing of the call is kept
Deliver ==
    /\ last # NoCall
    /\ last' = NoCall
    /\ UNCHANGED <<files, cache, content, stat, tags, unreadable, throwing,
                   folders, pending, history, net>>

-----------------------------------------------------------------------------
(* The specification of the traversal: a vault of four notes with any links *)
(* between them, and calls of get_related_notes on it.                      *)

\* the folders of the files at hand, no call suspended and none recorded:
\* the state of a vault the tools have not written to
NoWrites ==
    /\ folders = {Dirname(p) : p \in files} \ {<<>>}
    /\ pending = <<>>
    /\ history = <<>>

\* the sequences over S of length at most n
SeqsUpTo(S, n) == UNION {[1..k -> S] : k \in 0..n}

\* a cache entry whose last e link entries are embeds
CacheEntry(all, e) ==
    [links |-> SubSeq(all, 1, Len(all) - Min(e, Len(all))),
     embeds |-> SubSeq(all, Len(all) - Min(e, Len(all)) + 1, Len(all))]

\* the vaults over the note files F that hold at most n link entries in all
VaultWithLinks(F, n) ==
    \E e \in 0..1 :
    \E la \in SeqsUpTo(LinkTargets, IF NoteA \in F THEN n ELSE 0) :
    \E lb \in SeqsUpTo(LinkTargets, IF NoteB \in F THEN n - Len(la) ELSE 0) :
    \E lab \in SeqsUpTo(LinkTargets, IF NoteAB \in F THEN n - Len(la) - Len(lb) ELSE 0) :
    \E lfa \in SeqsUpTo(LinkTargets,
                        IF NoteFA \in F THEN n - Len(la) - Len(lb) - Len(lab) ELSE 0) :
        LET entry == (NoteA :> CacheEntry(la, e)) @@ (NoteB :> CacheEntry(lb, e))
                     @@ (NoteAB :> CacheEntry(lab, e)) @@ (NoteFA :> CacheEntry(lfa, e))
        IN  /\ files = F
            /\ cache = [p \in F |-> entry[p]]

Init ==
    /\ NotStarted
    /\ VaultWithLinks(Notes, MaxLinks)
    /\ content = [p \in Notes |-> <<>>]
    /\ stat = [p \in Notes |-> [ctime |-> 0, mtime |-> 0]]
    /\ tags = [p \in Notes |-> {}]
    /\ unreadable = {}
    /\ throwing = {}
    /\ last = NoCall
    /\ NoWrites

\* the depths the traversal accepts
TraversalDepths == {DepthUndefined} \cup {DepthNumber(n) : n \in 1..3}

\* a call of the tool get_related_notes
GetRelatedNotes(path, depthParam) ==
    LET r == getRelatedNotes(path, depthParam)
    IN  /\ last = NoCall
        /\ last' = [tool |-> "get_related_notes", path |-> path, depth |-> depthParam,
                    response |-> r.response, trace |-> r.trace]
        /\ UNCHANGED <<files, cache, content, stat, tags, unreadable, throwing,
                       folders, pending, history, net>>

Next ==
    \/ \E path \in Notes, depthParam \in TraversalDepths : GetRelatedNotes(path, depthParam)
    \/ Deliver

Spec == Init /\ [][Next]_vars

-----------------------------------------------------------------------------
(* The specification of the argument checks: vaults holding any of the four *)
(* notes, and calls with paths and depths of every kind.                    *)

\* the paths of the calls: the notes, paths of no file, the empty path, and
\* paths validatePath rejects
ArgPaths ==
    Notes \cup {Ghost, Null,
                <<"A", ".", "m", "d">>, <<"a">>, <<"f">>, <<"z", "z">>,
                <<".", ".", "/", "a", ".", "m", "d">>, <<"/", "a", ".", "m", "d">>,
                <<"X", ":", "a", ".", "m", "d">>}

\* the depth arguments of the calls
AllDepths ==
    {DepthUndefined, DepthText, DepthString(2), DepthString(4)}
        \cup {DepthNumber(n) : n \in 0..4}

InitArgs ==
    /\ NotStarted
    /\ \E F \in SUBSET Notes : VaultWithLinks(F, MaxArgLinks)
    /\ content = [p \in files |-> <<>>]
    /\ stat = [p \in files |-> [ctime |-> 0, mtime |-> 0]]
    /\ tags = [p \in files |-> {}]
    /\ unreadable = {}
    /\ throwing = {}
    /\ last = NoCall
    /\ NoWrites

NextArgs ==
    \/ \E path \in ArgPaths, depthParam \in AllDepths : GetRelatedNotes(path, depthParam)
    \/ Deliver

SpecArgs == InitArgs /\ [][NextArgs]_vars

-----------------------------------------------------------------------------
(* The specification of the search: four notes with short texts and stamps, *)
(* and calls of search_notes with every sort and limit, one call at a time  *)
(* on a vault nothing else writes to.                                       *)

\* the characters of the note texts
ContentChars == {"a", "b"}

\* a text with more occurrences of "a" than the score counts
LongRun == <<"a", "a", "a", "a", "a", "a", "a", "a", "a", "a", "a">>

\* the stat of the notes, from the stamps of a.md, b.md, ab.md and f/a.md
StatOf(ctimes, mtimes) ==
    (NoteA :> [ctime |-> ctimes[1], mtime |-> mtimes[1]])
    @@ (NoteB :> [ctime |-> ctimes[2], mtime |-> mtimes[2]])
    @@ (NoteAB :> [ctime |-> ctimes[3], mtime |-> mtimes[3]])
    @@ (NoteFA :> [ctime |-> ctimes[4], mtime |-> mtimes[4]])

\* stamps in opposite orders, and stamps with ties
StatChoices ==
    {StatOf(<<1, 2, 3, 4>>, <<4, 3, 2, 1>>), StatOf(<<2, 1, 2, 1>>, <<1, 1, 2, 2>>)}

\* what a text counts towards the bound: its length, the long run as one
TextCost(t) == IF t = LongRun THEN 1 ELSE Len(t)

\* the texts of the four notes: at most n characters in all, where b.md may
\* hold the long run
TextsUpTo(n) ==
    \E ta \in SeqsUpTo(ContentChars, n) :
    \E tb \in SeqsUpTo(ContentChars, n - Len(ta)) \cup (IF Len(ta) < n THEN {LongRun} ELSE {}) :
    \E tab \in SeqsUpTo(ContentChars, n - Len(ta) - TextCost(tb)) :
    \E tfa \in SeqsUpTo(ContentChars, n - Len(ta) - TextCost(tb) - Len(tab)) :
        content = (NoteA :> ta) @@ (NoteB :> tb) @@ (NoteAB :> tab) @@ (NoteFA :> tfa)

InitSearch ==
    /\ NotStarted
    /\ files = Notes
    /\ cache = [p \in Notes |-> CacheEntry(<<>>, 0)]
    /\ TextsUpTo(MaxChars)
    /\ stat \in StatChoices
    /\ tags = [p \in Notes |-> {}]
    /\ unreadable = {}
    /\ throwing = {}
    /\ last = NoCall
    /\ NoWrites

\* the queries of the calls
SearchQueries == {<<"a">>, <<"A">>}

\* the sort_by and limit options of the calls
SortOptions == {"undefined", "relevance", "modified", "created", "title"}
LimitOptions == {LimitUndefined} \cup {LimitNumber(n) : n \in 0..2}

\* a call of the tool search_notes, up to its first wait for the host
SearchNotes(query, folder, tag, limit, sort_by) ==
    /\ last = NoCall
    /\ \E b \in {searchBegin(query, folder, tag, limit, sort_by)} : Begins("last", b)
    /\ UNCHANGED <<files, cache, content, stat, tags, unreadable, throwing, folders, net>>

NextSearch ==
    \/ /\ pending = <<>>
       /\ \E query \in SearchQueries, limit \in LimitOptions, sort_by \in SortOptions :
              SearchNotes(query, Null, Null, limit, sort_by)
    \/ /\ pending = <<>>
       /\ SearchNotes(Null, Null, Null, LimitUndefined, "undefined")
    \/ \E i \in 1..Len(pending) : ReadDone(i)
    \/ Deliver

SpecSearch == InitSearch /\ [][NextSearch]_vars

-----------------------------------------------------------------------------
(* The specification of the search filters: four notes with short texts,   *)
(* some tagged and some whose content cannot be read, and calls of          *)
(* search_notes with folder and tag filters.                                *)

\* the bounds of the vault: the characters of the texts in all, and the
\* notes whose content cannot be read
MaxFilterChars == 1
MaxBroken == 1

\* the tag of the tagged notes, as the metadata cache holds it
TagX == <<"#", "x">>

InitFilter ==
    /\ NotStarted
    /\ files = Notes
    /\ cache = [p \in Notes |-> CacheEntry(<<>>, 0)]
    /\ TextsUpTo(MaxFilterChars)
    /\ stat = [p \in Notes |-> [ctime |-> 0, mtime |-> 0]]
    /\ \E tagged \in SUBSET Notes :
       \E broken \in SUBSET Notes :
           /\ Cardinality(broken) <= MaxBroken
           /\ tags = [p \in Notes |-> IF p \in tagged THEN {TagX} ELSE {}]
           /\ unreadable = broken
           /\ throwing = {}
    /\ last = NoCall
    /\ NoWrites

\* the folder and tag filters of the calls
FolderFilters == {Null, <<"f">>, <<"a">>}
TagFilters == {Null, <<"x">>, TagX}

NextFilter ==
    \/ /\ pending = <<>>
       /\ \E query \in SearchQueries, folder \in FolderFilters, tag \in TagFilters :
              SearchNotes(query, folder, tag, LimitUndefined, "undefined")
    \/ \E i \in 1..Len(pending) : ReadDone(i)
    \/ Deliver

SpecFilter == InitFilter /\ [][NextFilter]_vars

-----------------------------------------------------------------------------
(* The specification of the failed reads: three notes, two of them with     *)
(* links, some of them unreadable, and calls of get_related_notes with      *)
(* snippets and of search_notes.                                            *)

\* the links a.md and b.md hold at most, each
MaxSnippetLinks == 1

\* the notes of the vault
SnippetNotes == {NoteA, NoteB, NoteAB}

\* the texts of the notes: empty, short, and a frontmatter block before a
\* body that is longer than the short snippets
SnippetTexts ==
    {<<>>, <<"a">>,
     <<"-", "-", "-", "\n", "b", "\n", "-", "-", "-", "\n", " ", "a", "b", " ", "a">>}

InitSnippets ==
    /\ NotStarted
    /\ files = SnippetNotes
    /\ \E la \in SeqsUpTo(SnippetNotes, MaxSnippetLinks) :
       \E lb \in SeqsUpTo(SnippetNotes, MaxSnippetLinks) :
           cache = (NoteA :> CacheEntry(la, 0)) @@ (NoteB :> CacheEntry(lb, 0))
                   @@ (NoteAB :> CacheEntry(<<>>, 0))
    /\ \E t \in SnippetTexts : content = [p \in SnippetNotes |-> t]
    /\ stat = [p \in SnippetNotes |-> [ctime |-> 0, mtime |-> 0]]
    /\ tags = [p \in SnippetNotes |-> {}]
    /\ unreadable \in SUBSET SnippetNotes
    /\ throwing = {}
    /\ last = NoCall
    /\ NoWrites

\* the options of the calls
SnippetOptions ==
    [depth : {DepthUndefined, DepthNumber(2)},
     include_snippets : {"undefined", "true", "false"},
     max_snippet_length : {LimitUndefined, LimitNumber(2)}]

\* a call of the tool get_related_notes with its options, up to its first
\* wait for the host
GetRelatedNotesWithOptions(path, options) ==
    /\ last = NoCall
    /\ \E b \in {getRelatedNotesWithOptions(path, options)} : Begins("last", b)
    /\ UNCHANGED <<files, cache, content, stat, tags, unreadable, throwing, folders, net>>

NextSnippets ==
    \/ /\ pending = <<>>
       /\ \E path \in SnippetNotes, options \in SnippetOptions :
              GetRelatedNotesWithOptions(path, options)
    \/ /\ pending = <<>>
       /\ \E query \in SearchQueries :
              SearchNotes(query, Null, Null, LimitUndefined, "undefined")
    \/ \E i \in 1..Len(pending) : ReadDone(i)
    \/ Deliver

SpecSnippets == InitSnippets /\ [][NextSnippets]_vars

-----------------------------------------------------------------------------
(* The specification of the snippet extractor: one note with any short     *)
(* text, and extractSnippet applied to it with a term and a length.        *)

\* the longest text and the largest maxLength
MaxSnippetText == 4
MaxLength == 3

\* the characters of the texts: letters in both cases, white space, and the
\* character of the ellipsis
SnippetChars == {"a", "A", " ", "."}

\* the terms: empty, in the text or not, and one that occurs in the ellipsis
SnippetTerms == {<<>>, <<"a">>, <<"a", "a">>, <<".">>}

InitExtract ==
    /\ NotStarted
    /\ files = {NoteA}
    /\ cache = [p \in {NoteA} |-> CacheEntry(<<>>, 0)]
    /\ \E text \in SeqsUpTo(SnippetChars, MaxSnippetText) : content = [p \in {NoteA} |-> text]
    /\ stat = [p \in {NoteA} |-> [ctime |-> 0, mtime |-> 0]]
    /\ tags = [p \in {NoteA} |-> {}]
    /\ unreadable = {}
    /\ throwing = {}
    /\ last = NoCall
    /\ NoWrites

\* extractSnippet applied to the text of the note, and again to its result
ExtractSnippet(searchTerm, maxLength) ==
    LET text == content[NoteA]
        s == extractSnippet(text, searchTerm, maxLength)
    IN  /\ last = NoCall
        /\ last' = [tool |-> "extractSnippet", text |-> text, term |-> searchTerm,
                    maxLength |-> maxLength, result |-> s,
                    again |-> extractSnippet(s, searchTerm, maxLength)]
        /\ UNCHANGED <<files, cache, content, stat, tags, unreadable, throwing,
                       folders, pending, history, net>>

NextExtract ==
    \/ \E searchTerm \in SnippetTerms, maxLength \in 1..MaxLength :
           ExtractSnippet(searchTerm, maxLength)
    \/ Deliver

SpecExtract == InitExtract /\ [][NextExtract]_vars

-----------------------------------------------------------------------------
(* The specification of the frontmatter helpers: one note whose text is    *)
(* made of marker lines, line ends and letters, and removeFrontmatter       *)
(* applied to it.                                                           *)

\* the pieces a text is made of at most
MaxPieces == 6

\* the pieces of the texts: a line of three dashes, a line end, a letter
TextPieces == {Opening, <<"\n">>, <<"a">>}

RECURSIVE Flatten(_)
\* the pieces joined into one text
Flatten(pieces) == IF pieces = <<>> THEN <<>> ELSE Head(pieces) \o Flatten(Tail(pieces))

InitFrontmatter ==
    /\ NotStarted
    /\ files = {NoteA}
    /\ cache = [p \in {NoteA} |-> CacheEntry(<<>>, 0)]
    /\ \E pieces \in SeqsUpTo(TextPieces, MaxPieces) :
           content = [p \in {NoteA} |-> Flatten(pieces)]
    /\ stat = [p \in {NoteA} |-> [ctime |-> 0, mtime |-> 0]]
    /\ tags = [p \in {NoteA} |-> {}]
    /\ unreadable = {}
    /\ throwing = {}
    /\ last = NoCall
    /\ NoWrites

\* removeFrontmatter applied to the text of the note, and again to its result
RemoveFrontmatter ==
    LET text == content[NoteA]
    IN  /\ last = NoCall
        /\ last' = [tool |-> "removeFrontmatter", text |-> text,
                    result |-> removeFrontmatter(text),
                    again |-> removeFrontmatter(removeFrontmatter(text))]
        /\ UNCHANGED <<files, cache, content, stat, tags, unreadable, throwing,
                       folders, pending, history, net>>

\* extractFrontmatter applied to the text of the note
ExtractFrontmatter ==
    /\ last = NoCall
    /\ last' = [tool |-> "extractFrontmatter", text |-> content[NoteA],
                result |-> extractFrontmatter(content[NoteA])]
    /\ UNCHANGED <<files, cache, content, stat, tags, unreadable, throwing,
                   folders, pending, history, net>>

NextFrontmatter ==
    \/ RemoveFrontmatter
    \/ ExtractFrontmatter
    \/ Deliver

SpecFrontmatter == InitFrontmatter /\ [][NextFrontmatter]_vars

-----------------------------------------------------------------------------
(* The specification of create_note and get_note: an empty vault, and calls *)
(* of the two tools, one after the other or while another waits for the     *)
(* host.                                                                    *)

\* the calls of one behaviour at most
MaxCalls == 3

\* a text with a frontmatter block before its body
FrontText == <<"-", "-", "-", "\n", "x", "\n", "-", "-", "-", "\n", "y">>

\* a text with a frontmatter block that holds nothing before its body
EmptyInsideText == <<"-", "-", "-", "\n", "\n", "-", "-", "-", "\n", "z", "z">>

\* the filenames and the contents of the create_note calls: a text without a
\* block, and texts that begin with a block
CreateNames == {<<"a">>, NoteA}
CreateTexts == {Text(<<"y", "y">>), Text(FrontText), Text(EmptyInsideText)}

\* the options of the calls
CreateOptions ==
    [folder : {Null}, open_after : {"undefined"}, overwrite : {"undefined", "true"}]
GetOptions ==
    [preview : {"undefined"}, include_metadata : {"undefined"},
     max_content_length : {LimitUndefined, LimitNumber(1)}]
    \cup {[preview |-> "true", include_metadata |-> "undefined",
            max_content_length |-> LimitUndefined]}

\* a vault without notes
EmptyVault ==
    /\ files = {}
    /\ folders = {}
    /\ cache = <<>>
    /\ content = <<>>
    /\ stat = <<>>
    /\ tags = <<>>
    /\ unreadable = {}
    /\ throwing = {}

InitCreate ==
    /\ NotStarted
    /\ EmptyVault
    /\ last = NoCall
    /\ pending = <<>>
    /\ history = <<>>

\* a call of the tool create_note, up to its first wait for the host
CreateNote(filename, text, options) ==
    /\ Begun < MaxCalls
    /\ \E b \in {createBegin(filename, text, options)} :
           /\ VaultBecomes(b.vault)
           /\ Begins("history", b)
    /\ UNCHANGED <<unreadable, throwing, net>>

\* the suspended call goes on after the host has written its note: it waits
\* for openFile when open_after is set, and returns with success otherwise
written(i) ==
    IF optionOf(pending[i].call.options.open_after)
    THEN Waits(i, [pending[i].call EXCEPT !.at = "open"])
    ELSE Returns(i, [response |-> createResponse(pending[i].call, ~pending[i].call.fresh),
                     reads |-> {},
                     written |-> {fullPathOf(pending[i].call.filename,
                                             pending[i].call.options.folder)}])

\* the suspended call returns the error envelope of the code
refused(i, code) ==
    Returns(i, [response |-> createErrorResponse(code, <<>>), reads |-> {},
                written |-> {}])

\* the host carries out the modify of a suspended call: the file holds the
\* content of the call
ModifyDone(i) ==
    /\ pending[i].call.tool = "create_note" /\ pending[i].call.at = "modify"
    /\ VaultBecomes(modify(Vault, fullPathOf(pending[i].call.filename,
                                             pending[i].call.options.folder),
                           pending[i].call.text.val))
    /\ written(i)
    /\ UNCHANGED <<unreadable, throwing, net>>

\* the host carries out the createFolder of a suspended call: it throws when
\* something stands at the path, and the call answers FOLDER_CREATE_ERROR;
\* else the folder is there and the call goes on to create
CreateFolderDone(i) ==
    /\ pending[i].call.tool = "create_note" /\ pending[i].call.at = "createFolder"
    /\ IF stripSlash(pending[i].call.options.folder) \in files \cup folders
       THEN /\ refused(i, "FOLDER_CREATE_ERROR")
            /\ UNCHANGED folders
       ELSE /\ folders' = folders \cup {stripSlash(pending[i].call.options.folder)}
            /\ Waits(i, [pending[i].call EXCEPT !.at = "create"])
    /\ UNCHANGED <<files, cache, content, stat, tags, unreadable, throwing, net>>

\* the host carries out the create of a suspended call: it throws 'already
\* exists' when something stands at the path, and throws when the folder of
\* the path is missing; else the file is there with the content of the call
CreateDone(i) ==
    /\ pending[i].call.tool = "create_note" /\ pending[i].call.at = "create"
    /\ \E fullPath \in {fullPathOf(pending[i].call.filename,
                                   pending[i].call.options.folder)} :
           IF fullPath \in files \cup folders
           THEN /\ refused(i, "FILE_EXISTS")
                /\ UNCHANGED <<files, folders, content, stat, cache, tags>>
           ELSE IF Dirname(fullPath) \notin folders \cup {<<>>}
           THEN /\ refused(i, "CREATE_ERROR")
                /\ UNCHANGED <<files, folders, content, stat, cache, tags>>
           ELSE /\ VaultBecomes(create(Vault, fullPath, pending[i].call.text.val))
                /\ written(i)
    /\ UNCHANGED <<unreadable, throwing, net>>

\* the host has opened the note of a suspended call: the call returns with
\* success
OpenDone(i) ==
    /\ pending[i].call.tool = "create_note" /\ pending[i].call.at = "open"
    /\ Returns(i, [response |-> createResponse(pending[i].call, ~pending[i].call.fresh),
                   reads |-> {},
                   written |-> {fullPathOf(pending[i].call.filename,
                                           pending[i].call.options.folder)}])
    /\ UNCHANGED <<files, cache, content, stat, tags, unreadable, throwing, folders, net>>

\* a call of the tool get_note, up to its wait for the read
GetNote(path, options) ==
    /\ Begun < MaxCalls
    /\ \E b \in {getNoteBegin(path, options)} : Begins("history", b)
    /\ UNCHANGED <<files, cache, content, stat, tags, unreadable, throwing, folders, net>>

NextCreate ==
    \/ \E filename \in CreateNames, text \in CreateTexts, options \in CreateOptions :
           CreateNote(filename, text, options)
    \/ \E i \in 1..Len(pending) : ModifyDone(i)
    \/ \E i \in 1..Len(pending) : CreateDone(i)
    \/ \E options \in GetOptions : GetNote(NoteA, options)
    \/ \E i \in 1..Len(pending) : ReadDone(i)

SpecCreate == InitCreate /\ [][NextCreate]_vars

-----------------------------------------------------------------------------
(* The specification of append_to_note: one note, and calls of the tool     *)
(* that are suspended at the read of the note and at the write, so that the *)
(* requests the server accepts meanwhile run in between.                    *)

\* the append_to_note calls of one behaviour at most
MaxAppends == 2

\* a text with a frontmatter block that holds nothing before its body
EmptyBlockText == <<"-", "-", "-", "\n", "-", "-", "-", "\n", "y">>

\* the contents of the note at the start
AppendContents == {<<"c">>, <<"c", "\n">>, FrontText, EmptyBlockText}

\* the paths, the contents and the options of the calls
AppendPaths == {NoteA, Ghost}
AppendTexts == {<<"x">>, <<"\n", "y">>}
AppendOptions ==
    [position : {"undefined", "start", "after_frontmatter"},
     ensure_newline : {"undefined", "false"}]
        \cup {[position |-> "middle", ensure_newline |-> "undefined"]}

\* the contents of the note and what the host does with a write: it carries
\* out the writes to a note of every content, or rejects those to the note "c"
AppendHosts ==
    {[content |-> c, throwing |-> {}] : c \in AppendContents}
        \cup {[content |-> <<"c">>, throwing |-> {"write"}]}

InitAppend ==
    /\ NotStarted
    /\ files = {NoteA}
    /\ folders = {}
    /\ cache = [p \in {NoteA} |-> CacheEntry(<<>>, 0)]
    /\ \E h \in AppendHosts :
           /\ content = [p \in {NoteA} |-> h.content]
           /\ throwing = h.throwing
    /\ stat = [p \in {NoteA} |-> [ctime |-> 0, mtime |-> 0]]
    /\ tags = [p \in {NoteA} |-> {}]
    /\ unreadable = {}
    /\ last = NoCall
    /\ pending = <<>>
    /\ history = <<>>

\* a call of append_to_note up to its wait for the read: it is answered at
\* once when a check fails, and suspended with the read it has issued
\* otherwise
AppendRead(path, text, options) ==
    /\ Begun < MaxAppends
    /\ \E b \in {appendBegin(path, text, options)} : Begins("history", b)
    /\ UNCHANGED <<files, cache, content, stat, tags, unreadable, throwing, folders, net>>

\* the host answers the write a suspended call waits for. When it carries the
\* write out, the note holds the content the call composed from what it
\* read, and the call returns with success; when it rejects the write, the
\* note is left as it is and the catch block answers APPEND_ERROR
AppendWrite(i) ==
    /\ pending[i].call.tool = "append_to_note" /\ pending[i].call.at = "write"
    /\ \E call \in {pending[i].call} :
           IF "write" \in throwing
           THEN /\ UNCHANGED content
                /\ Returns(i, [response |-> createErrorResponse("APPEND_ERROR", <<>>),
                               original |-> <<>>,
                               reads |-> {call.path}, written |-> {}])
           ELSE /\ content' = [content EXCEPT ![call.path] =
                                   newContentOf(call.read.text, call.text, call.options)]
                /\ Returns(i, [response |-> appendResponseOf(call),
                               original |-> call.read.text,
                               reads |-> {call.path}, written |-> {call.path}])
    /\ UNCHANGED <<files, cache, stat, tags, unreadable, throwing, folders, net>>

NextAppend ==
    \/ \E path \in AppendPaths, text \in AppendTexts, options \in AppendOptions :
           AppendRead(path, text, options)
    \/ \E i \in 1..Len(pending) : ReadDone(i)
    \/ \E i \in 1..Len(pending) : AppendWrite(i)

SpecAppend == InitAppend /\ [][NextAppend]_vars

-----------------------------------------------------------------------------
(* The specification of the argument checks of the four tools that take a   *)
(* path: a vault of two notes, and calls with arguments that pass and that  *)
(* fail the checks.                                                         *)

\* a folder the vault does not hold at the start
FolderG == <<"g">>

\* paths validatePath rejects
UpPath == <<".", ".", "/", "a", ".", "m", "d">>
RootPath == <<"/", "a", ".", "m", "d">>
DrivePath == <<"X", ":", "a", ".", "m", "d">>

\* the arguments of the calls: for each tool, calls that fail each check and
\* calls that pass them all
FrameCreates ==
    {[filename |-> f, text |-> t,
      options |-> [folder |-> FolderG, open_after |-> "undefined", overwrite |-> "undefined"]] :
         f \in {Null, <<"a">>, <<".", ".", "/", "a">>}, t \in {NoContent, Text(<<"x">>)}}
FrameGets == {Null, RootPath, NoteA}
FrameAppends ==
    {[path |-> Null, text |-> <<"x">>], [path |-> NoteA, text |-> Null],
     [path |-> DrivePath, text |-> <<"x">>], [path |-> NoteA, text |-> <<"x">>]}
FrameRelated ==
    {[path |-> Null, depth |-> DepthUndefined], [path |-> UpPath, depth |-> DepthUndefined],
     [path |-> NoteA, depth |-> DepthNumber(0)], [path |-> NoteA, depth |-> DepthNumber(4)],
     [path |-> NoteA, depth |-> DepthText], [path |-> NoteA, depth |-> DepthNumber(2)]}

InitFrame ==
    /\ NotStarted
    /\ files = {NoteA, NoteB}
    /\ folders = {}
    /\ cache = (NoteA :> CacheEntry(<<NoteB>>, 0)) @@ (NoteB :> CacheEntry(<<NoteA>>, 0))
    /\ content = (NoteA :> <<"c">>) @@ (NoteB :> <<"a">>)
    /\ stat = [p \in {NoteA, NoteB} |-> [ctime |-> 0, mtime |-> 0]]
    /\ tags = [p \in {NoteA, NoteB} |-> {}]
    /\ unreadable = {}
    /\ throwing = {}
    /\ last = NoCall
    /\ pending = <<>>
    /\ history = <<>>

\* a call of the tool get_related_notes, up to its first wait for the read
\* of a snippet
RelatedNotesCall(path, options) ==
    /\ Begun < MaxCalls
    /\ \E b \in {getRelatedNotesWithOptions(path, options)} : Begins("history", b)
    /\ UNCHANGED <<files, cache, content, stat, tags, unreadable, throwing, folders, net>>

NextFrame ==
    \/ \E c \in FrameCreates : CreateNote(c.filename, c.text, c.options)
    \/ \E i \in 1..Len(pending) : CreateFolderDone(i)
    \/ \E i \in 1..Len(pending) : CreateDone(i)
    \/ \E path \in FrameGets :
           GetNote(path, [preview |-> "undefined", include_metadata |-> "undefined",
                          max_content_length |-> LimitUndefined])
    \/ \E c \in FrameAppends :
           AppendRead(c.path, c.text, [position |-> "undefined", ensure_newline |-> "undefined"])
    \/ \E i \in 1..Len(pending) : AppendWrite(i)
    \/ \E c \in FrameRelated :
           RelatedNotesCall(c.path, [depth |-> c.depth, include_snippets |-> "true",
                                     max_snippet_length |-> LimitUndefined])
    \/ \E i \in 1..Len(pending) : ReadDone(i)

SpecFrame == InitFrame /\ [][NextFrame]_vars

-----------------------------------------------------------------------------
(* The specification of the error codes: one vault with a note that cannot  *)
(* be read, a readable note, a file that is not a text file, and a folder,  *)
(* in a host whose collaborators work or fail; the tools are called with    *)
(* arguments that reach their error responses, and with arguments that      *)
(* succeed where the host works.                                            *)

\* a file that is not a text file
Picture == <<"a", ".", "p", "n", "g">>

\* the host works: none of its collaborators fails
HostWorks == throwing = {}

\* the arguments of the calls. Where the host works they reach the checks of
\* the tools and the note that cannot be read; where it fails they are
\* accepted by the checks and reach the collaborator that fails, but for a
\* create_note at the path of the folder
CodeCreates ==
    {[filename |-> <<"g">>, folder |-> Null, overwrite |-> "true"]}
        \cup IF HostWorks
             THEN {[filename |-> UpPath, folder |-> Null, overwrite |-> "undefined"],
                   [filename |-> <<"a">>, folder |-> Null, overwrite |-> "undefined"],
                   [filename |-> <<"b">>, folder |-> NoteA, overwrite |-> "undefined"],
                   [filename |-> <<"f", "/", "b">>, folder |-> Null,
                    overwrite |-> "undefined"]}
             ELSE {}
CodeGets == IF HostWorks THEN {Ghost, Picture, NoteA} ELSE {NoteB}
CodeAppends ==
    {[path |-> p, text |-> <<"x">>] :
         p \in IF HostWorks THEN {Ghost, NoteA, NoteB} ELSE {NoteB}}
CodeRelated ==
    {[path |-> NoteA, depth |-> IF HostWorks THEN DepthNumber(4) ELSE DepthUndefined]}
CodeSearches ==
    {IF HostWorks THEN [query |-> Null, tag |-> Null]
     ELSE [query |-> <<"c">>, tag |-> <<"x">>]}

InitCodes ==
    /\ NotStarted
    /\ files = {NoteA, NoteB, Picture}
    /\ folders = {Ghost}
    /\ cache = (NoteA :> CacheEntry(<<NoteB>>, 0)) @@ (NoteB :> CacheEntry(<<>>, 0))
    /\ content = (NoteA :> <<"c">>) @@ (NoteB :> <<"c">>)
    /\ stat = [p \in {NoteA, NoteB} |-> [ctime |-> 0, mtime |-> 0]]
    /\ tags = [p \in {NoteA, NoteB} |-> {}]
    /\ unreadable = {NoteA}
    /\ throwing \in {{}, {"getCache", "write"}}
    /\ last = NoCall
    /\ pending = <<>>
    /\ history = <<>>

NextCodes ==
    \/ \E c \in CodeCreates :
           CreateNote(c.filename, Text(<<"x">>),
                      [folder |-> c.folder, open_after |-> "undefined",
                       overwrite |-> c.overwrite])
    \/ \E i \in 1..Len(pending) : CreateDone(i)
    \/ \E path \in CodeGets :
           GetNote(path, [preview |-> "undefined", include_metadata |-> "undefined",
                          max_content_length |-> LimitUndefined])
    \/ \E i \in 1..Len(pending) : ReadDone(i)
    \/ \E c \in CodeAppends :
           AppendRead(c.path, c.text, [position |-> "undefined", ensure_newline |-> "undefined"])
    \/ \E i \in 1..Len(pending) : AppendWrite(i)
    \/ \E c \in CodeRelated :
           RelatedNotesCall(c.path, [depth |-> c.depth, include_snippets |-> "undefined",
                                     max_snippet_length |-> LimitUndefined])
    \/ \E c \in CodeSearches :
           SearchNotes(c.query, Null, c.tag, LimitUndefined, "undefined")
    \/ Deliver

SpecCodes == InitCodes /\ [][NextCodes]_vars

-----------------------------------------------------------------------------
(* The specification of the HTTP handler: a vault of one note, readable or  *)
(* not, and POST bodies of every kind: no JSON, null, and requests with     *)
(* and without id for known and unknown methods, tools and arguments; a     *)
(* second POST is handled while the tool of the first waits for the host.   *)

\* the length of the note up to which the server is sent POSTs
MaxNoteLength == 1

\* the methods, the parameters and the bodies of the requests
HttpMethods ==
    {<<"initialize">>, <<"tools", "list">>, <<"tools", "call">>,
     <<"notifications", "initialized">>, <<"resources", "list">>}
HttpParams ==
    {[name |-> n,
      arguments |-> [query |-> v, path |-> v, filename |-> v, content |-> c,
                     overwrite |-> "undefined",
                     position |-> "undefined"]] :
         n \in AdvertisedTools \cup {"delete_note", "undefined"},
         v \in {NoContent, Text(NoteA), Text(Ghost), Number5},
         c \in {NoContent, Text(<<"x", "x">>)}}
        \cup {[name |-> "create_note",
               arguments |-> [query |-> NoContent, path |-> NoContent,
                              filename |-> Text(NoteA), content |-> Text(<<"x", "x">>),
                              overwrite |-> "true",
                              position |-> "undefined"]],
              [name |-> "append_to_note",
               arguments |-> [query |-> Number5, path |-> Number5, filename |-> Number5,
                              content |-> Text(<<>>), overwrite |-> "undefined",
                              position |-> "undefined"]]}
        \cup {[name |-> "append_to_note",
               arguments |-> [query |-> NoContent, path |-> Text(NoteA),
                              filename |-> NoContent, content |-> Number5,
                              overwrite |-> "undefined", position |-> q]] :
                  q \in {"undefined", "start", "middle"}}
        \cup {[name |-> "create_note",
               arguments |-> [query |-> NoContent, path |-> NoContent,
                              filename |-> Text(NoteA), content |-> Number5,
                              overwrite |-> "true", position |-> "undefined"]]}
NoParams ==
    [name |-> "undefined",
     arguments |-> [query |-> NoContent, path |-> NoContent, filename |-> NoContent,
                    content |-> NoContent, overwrite |-> "undefined",
                    position |-> "undefined"]]
NoRequest == [id |-> NoId, method |-> <<>>, params |-> <<>>]
HttpBodies ==
    {[json |-> j, request |-> NoRequest] : j \in {"invalid", "null"}}
        \cup {[json |-> "object",
               request |-> [id |-> i, method |-> <<"tools", "call">>, params |-> p]] :
                  i \in {NoId, Id(0), Id(1)}, p \in HttpParams}
        \cup {[json |-> "object", request |-> [id |-> i, method |-> m, params |-> NoParams]] :
                  i \in {NoId, Id(0), Id(1)}, m \in HttpMethods \ {<<"tools", "call">>}}

\* the bodies of the POSTs that arrive while the server waits for the host
\* in another: calls of the tools on the note
OverlapBodies ==
    {b \in HttpBodies :
        /\ b.json = "object" /\ b.request.id = Id(1)
        /\ b.request.method = <<"tools", "call">>
        /\ b.request.params.name \in AdvertisedTools
        /\ b.request.params.arguments.filename = Text(NoteA)
        /\ b.request.params.arguments.content = Text(<<"x", "x">>)}

InitHttp ==
    /\ NotStarted
    /\ files = {NoteA}
    /\ folders = {}
    /\ cache = [p \in {NoteA} |-> CacheEntry(<<>>, 0)]
    /\ content = [p \in {NoteA} |-> <<"c">>]
    /\ stat = [p \in {NoteA} |-> [ctime |-> 0, mtime |-> 0]]
    /\ tags = [p \in {NoteA} |-> {}]
    /\ unreadable \in SUBSET {NoteA}
    /\ throwing = {}
    /\ last = NoCall
    /\ pending = <<>>
    /\ history = <<>>

\* the server has read the body of a POST and handles it, up to its first
\* wait for the host
HandleRequest(body) ==
    /\ \A p \in files : Len(content[p]) <= MaxNoteLength
    /\ \E r \in {handleRequest(body)} :
           /\ VaultBecomes(r.vault)
           /\ IF r.done
              THEN /\ last = NoCall
                   /\ last' = [tool |-> "POST", body |-> body, writes |-> r.writes]
                   /\ UNCHANGED pending
              ELSE /\ pending' = Append(pending, Suspended("post", body, r.call))
                   /\ UNCHANGED last
    /\ UNCHANGED <<unreadable, throwing, history, net>>

NextHttp ==
    \/ /\ pending = <<>>
       /\ \E body \in HttpBodies : HandleRequest(body)
    \/ /\ Len(pending) = 1
       /\ \E body \in OverlapBodies : HandleRequest(body)
    \/ \E i \in 1..Len(pending) : ReadDone(i)
    \/ \E i \in 1..Len(pending) : AppendWrite(i)
    \/ \E i \in 1..Len(pending) : ModifyDone(i)
    \/ \E i \in 1..Len(pending) : CreateDone(i)
    \/ Deliver

SpecHttp == InitHttp /\ [][NextHttp]_vars


-----------------------------------------------------------------------------
(* The specification of the lifecycle: one MCPServer, the plugin that loads *)
(* and unloads it, calls of start and stop in any order, and the events of  *)
(* the instances.                                                           *)

\* the instances one MCPServer creates in a run
MaxStarts == 2

\* the stop calls that wait for the close event of one instance
MaxStops == 2

\* the port of the settings: one that listen accepts, or one outside the
\* range of ports
Ports == {"valid", "bad"}

InitLifecycle ==
    /\ \E port \in Ports, enabled \in BOOLEAN : NotStartedOn(port, enabled)
    /\ EmptyVault
    /\ last = NoCall
    /\ pending = <<>>
    /\ history = <<>>

\* the tools and the bridge take no part in the lifecycle
LifecycleFrame ==
    UNCHANGED <<files, cache, content, stat, tags, unreadable, throwing, last, folders, pending,
                history, stdout>>

\* a call of start on the MCPServer
Start ==
    \E r \in {start} :
        /\ Len(r.instances) <= MaxStarts
        /\ server' = r.server
        /\ instances' = r.instances
        /\ step' = [op |-> "start", resolved |-> 0, created |-> r.created, threw |-> r.threw]
        /\ UNCHANGED plugin
        /\ LifecycleFrame

\* onload of the plugin is called: it waits for loadSettings
Onload ==
    /\ plugin.phase = "none"
    /\ plugin' = [plugin EXCEPT !.phase = "loading"]
    /\ step' = [op |-> "onload", resolved |-> 0, created |-> FALSE, threw |-> FALSE]
    /\ UNCHANGED <<server, instances>>
    /\ LifecycleFrame

\* loadSettings resolves and onload goes on; the MCPServer it constructs is
\* the one of this specification, as its constructor leaves it
SettingsLoaded ==
    \E r \in {onload} :
        /\ plugin.phase = "loading"
        /\ plugin.enabled => server = 0 /\ instances = <<>>
        /\ server' = r.server
        /\ instances' = r.instances
        /\ plugin' = [plugin EXCEPT !.phase = "loaded", !.mcpServer = r.mcpServer,
                                     !.notice = r.notice]
        /\ step' = [op |-> IF plugin.enabled THEN "start" ELSE "onload", resolved |-> 0,
                    created |-> r.created, threw |-> r.threw]
        /\ LifecycleFrame

\* a call of stop on the MCPServer
Stop ==
    \E r \in {stop} :
        /\ \A i \in 1..Len(r.instances) : r.instances[i].callbacks <= MaxStops
        /\ instances' = r.instances
        /\ step' = [op |-> "stop", resolved |-> r.resolved, created |-> FALSE, threw |-> FALSE]
        /\ UNCHANGED <<server, plugin>>
        /\ LifecycleFrame

\* onunload of the plugin: nothing when the plugin holds no MCPServer; else
\* stop is called on it, and the plugin lets go of it once stop has resolved,
\* at once when no server is set
Onunload ==
    \E r \in {stop} :
        /\ plugin.mcpServer
        /\ \A i \in 1..Len(r.instances) : r.instances[i].callbacks <= MaxStops
        /\ instances' = r.instances
        /\ plugin' = IF r.resolved = 1 THEN [plugin EXCEPT !.mcpServer = FALSE]
                     ELSE [plugin EXCEPT !.unloading = @ + 1]
        /\ step' = [op |-> "stop", resolved |-> r.resolved, created |-> FALSE, threw |-> FALSE]
        /\ UNCHANGED server
        /\ LifecycleFrame

\* instance i has bound its port: the callback of listen logs the address
Listening(i) ==
    /\ instances[i].state = "binding"
    /\ instances' = [instances EXCEPT ![i].state = "listening"]
    /\ step' = [op |-> "listening", resolved |-> 0, created |-> FALSE, threw |-> FALSE]
    /\ UNCHANGED <<server, plugin>>
    /\ LifecycleFrame

\* instance i could not bind its port and emits 'error': the handler logs it
ListenError(i) ==
    /\ instances[i].state = "binding"
    /\ instances' = [instances EXCEPT ![i].state = "failed"]
    /\ step' = [op |-> "error", resolved |-> 0, created |-> FALSE, threw |-> FALSE]
    /\ UNCHANGED <<server, plugin>>
    /\ LifecycleFrame

\* instance i, on which close was called, emits 'close'; every onunload that
\* waits for its stop goes on and sets this.mcpServer to null
Close(i) ==
    \E r \in {closed(i)} :
        /\ instances[i].callbacks > 0
        /\ server' = r.server
        /\ instances' = r.instances
        /\ step' = [op |-> "close", resolved |-> r.resolved, created |-> FALSE,
                    threw |-> FALSE]
        /\ plugin' = IF plugin.unloading > 0
                     THEN [plugin EXCEPT !.mcpServer = FALSE, !.unloading = 0]
                     ELSE plugin
        /\ LifecycleFrame

NextLifecycle ==
    \/ Start
    \/ Onload
    \/ SettingsLoaded
    \/ Stop
    \/ Onunload
    \/ \E i \in 1..Len(instances) : Listening(i)
    \/ \E i \in 1..Len(instances) : ListenError(i)
    \/ \E i \in 1..Len(instances) : Close(i)

SpecLifecycle == InitLifecycle /\ [][NextLifecycle]_vars


-----------------------------------------------------------------------------
(* The specification of the bridge: lines of standard input, forwarded to   *)
(* the server of a vault of one note or not forwarded at all.               *)

\* the lines the bridge writes to standard output in a run
MaxLines == 2

\* the arguments of the tools/call requests the bridge forwards
BridgeParams ==
    [name |-> "get_note",
     arguments |-> [query |-> NoContent, path |-> Text(NoteA), filename |-> NoContent,
                    content |-> NoContent, overwrite |-> "undefined",
                    position |-> "undefined"]]

\* the lines of standard input: blank, not JSON, the JSON null, or a request
BridgeLines ==
    {[json |-> j, request |-> NoRequest] : j \in {"blank", "invalid", "null"}}
        \cup {[json |-> "object",
               request |-> [id |-> i, method |-> m, params |-> BridgeParams]] :
                  i \in {NoId, Id(0), Id(1)}, m \in HttpMethods}

InitBridge ==
    /\ NotStarted
    /\ files = {NoteA}
    /\ folders = {}
    /\ cache = [p \in {NoteA} |-> CacheEntry(<<>>, 0)]
    /\ content = [p \in {NoteA} |-> <<"c">>]
    /\ stat = [p \in {NoteA} |-> [ctime |-> 0, mtime |-> 0]]
    /\ tags = [p \in {NoteA} |-> {}]
    /\ unreadable \in SUBSET {NoteA}
    /\ throwing = {}
    /\ last = NoCall
    /\ pending = <<>>
    /\ history = <<>>

\* the bridge reads a line: it handles at once a line it does not forward,
\* and sends the POST of a request and waits for the response
HandleMessage(line) ==
    /\ \E r \in {handleMessage(line)} :
           /\ Len(stdout) + Len(pending) + (IF r.done THEN Len(r.lines) ELSE 1) <= MaxLines
           /\ IF r.done
              THEN /\ stdout' = stdout \o r.lines
                   /\ step' = [op |-> "line", line |-> line, forward |-> "none",
                               wrote |-> Len(r.lines)]
                   /\ UNCHANGED pending
              ELSE /\ pending' = Append(pending,
                                        Suspended("bridge", line, [tool |-> "forward"]))
                   /\ UNCHANGED <<stdout, step>>
    /\ UNCHANGED <<files, cache, content, stat, tags, unreadable, throwing, folders, last, history,
                   server, instances, plugin>>

\* sendToObsidian rejects, the POST does not reach the server: the catch
\* block writes the error response
ForwardFails(i) ==
    /\ pending[i].call.tool = "forward"
    /\ stdout' = Append(stdout, BridgeError)
    /\ step' = [op |-> "line", line |-> pending[i].post, forward |-> "rejects",
                wrote |-> 1]
    /\ pending' = Without(pending, i)
    /\ UNCHANGED <<files, cache, content, stat, tags, unreadable, throwing, folders, last, history,
                   server, instances, plugin>>

\* the POST of the bridge reaches the server, which handles it up to its
\* first wait for the host
ServerReceives(i) ==
    /\ pending[i].call.tool = "forward"
    /\ \E r \in {handleRequest(pending[i].post)} :
           /\ VaultBecomes(r.vault)
           /\ pending' = [pending EXCEPT ![i].call =
                              IF r.done THEN [tool |-> "response", writes |-> r.writes]
                              ELSE r.call]
    /\ UNCHANGED <<unreadable, throwing, last, history, net>>

\* the response of the server reaches the bridge: sendToObsidian resolves,
\* and the bridge writes the response unless the request is a notification
BridgeReceives(i) ==
    /\ pending[i].call.tool = "response"
    /\ \E lines \in {bridged(isNotification(pending[i].post.request),
                             pending[i].call.writes)} :
           /\ stdout' = stdout \o lines
           /\ step' = [op |-> "line", line |-> pending[i].post, forward |-> "resolves",
                       wrote |-> Len(lines)]
    /\ pending' = Without(pending, i)
    /\ UNCHANGED <<files, cache, content, stat, tags, unreadable, throwing, folders, last, history,
                   server, instances, plugin>>

NextBridge ==
    \/ \E line \in BridgeLines : HandleMessage(line)
    \/ \E i \in 1..Len(pending) : ForwardFails(i)
    \/ \E i \in 1..Len(pending) : ServerReceives(i)
    \/ \E i \in 1..Len(pending) : ReadDone(i)
    \/ \E i \in 1..Len(pending) : BridgeReceives(i)

SpecBridge == InitBridge /\ [][NextBridge]_vars


-----------------------------------------------------------------------------
(* The specification of overlapping create_note calls: a call is suspended  *)
(* at its await of createFolder and at its await of create, and the host    *)
(* carries out one vault operation at a time.                               *)

\* the create_note calls begun in a run
MaxCreates == 2

\* the arguments of the overlapping calls
RaceNames == {<<"a">>, <<"b">>}
RaceTexts == {Text(<<"x">>), Text(<<"y">>)}
RaceOptions ==
    [folder : {Null, FolderG}, open_after : {"undefined", "true"},
     overwrite : {"undefined"}]

InitRace ==
    /\ NotStarted
    /\ files = {NoteA}
    /\ folders = {}
    /\ cache = [p \in {NoteA} |-> CacheEntry(<<>>, 0)]
    /\ content = [p \in {NoteA} |-> <<"c">>]
    /\ stat = [p \in {NoteA} |-> [ctime |-> 0, mtime |-> 0]]
    /\ tags = [p \in {NoteA} |-> {}]
    /\ unreadable = {}
    /\ throwing = {}
    /\ last = NoCall
    /\ pending = <<>>
    /\ history = <<>>

NextRace ==
    \/ /\ Begun < MaxCreates
       /\ \E filename \in RaceNames, text \in RaceTexts, options \in RaceOptions :
              CreateNote(filename, text, options)
    \/ \E i \in 1..Len(pending) : CreateFolderDone(i)
    \/ \E i \in 1..Len(pending) : CreateDone(i)
    \/ \E i \in 1..Len(pending) : OpenDone(i)

SpecRace == InitRace /\ [][NextRace]_vars

-----------------------------------------------------------------------------
(* Properties of get_related_notes.                                        *)

\* no element occurs twice in the sequence
NoDup(s) == \A i, j \in 1..Len(s) : i # j => s[i] # s[j]

\* a get_related_notes call has returned a success envelope
RelatedDone == last # NoCall /\ last.tool = "get_related_notes" /\ last.response.success

\* the depth of the successful call
DoneDepth == last.response.data.depth

\* C1: in one get_related_notes result no path occurs more than once in the
\* origin path together with the four link lists.
C1_NoPathTwiceInResult ==
    RelatedDone =>
        LET d == last.response.data
        IN  NoDup(<<last.path>> \o d.direct_outlinks \o d.direct_backlinks
                  \o d.transitive_outlinks \o d.transitive_backlinks)

\* C2: at depth 2 or 3 the transitive lists share no path with the direct
\* lists nor with each other, and hold no path twice.
C2_TransitiveExclusive ==
    (RelatedDone /\ DoneDepth \in 2..3) =>
        LET d == last.response.data
            direct == Range(d.direct_outlinks) \cup Range(d.direct_backlinks)
        IN  /\ Range(d.transitive_outlinks) \cap direct = {}
            /\ Range(d.transitive_backlinks) \cap direct = {}
            /\ Range(d.transitive_outlinks) \cap Range(d.transitive_backlinks) = {}
            /\ NoDup(d.transitive_outlinks)
            /\ NoDup(d.transitive_backlinks)

\* C3: the origin path is in none of the four link lists of its own result.
C3_OriginNeverListed ==
    RelatedDone =>
        LET d == last.response.data
        IN  last.path \notin Range(d.direct_outlinks) \cup Range(d.direct_backlinks)
                \cup Range(d.transitive_outlinks) \cup Range(d.transitive_backlinks)

\* C4: on every link graph, cycles and self-links included, every call at a
\* depth of 1..3 is answered, with a success envelope, and each direction of the
\* transitive expansion runs through at most depth-1 levels.
C4_AnsweredWithinDepth ==
    (last # NoCall /\ last.tool = "get_related_notes" /\ last.path \in files
        /\ ~depthOf(last.depth).nan /\ depthOf(last.depth).val \in 1..3) =>
        /\ last.response.success
        /\ last.trace.calls_out <= DoneDepth - 1
        /\ last.trace.calls_back <= DoneDepth - 1

\* a depth-3 call on a note that links to itself and lies on a longer cycle,
\* both levels of the outlink expansion entered
C4_Witness ==
    /\ RelatedDone /\ DoneDepth = 3
    /\ last.path \in resolvedLinks(last.path)
    /\ \E n \in Notes \ {last.path} :
            n \in resolvedLinks(last.path) /\ last.path \in resolvedLinks(n)
    /\ last.trace.calls_out = 2

\* C5: the transitive traversal of one call expands each note at most once,
\* both directions and all levels together, and never expands the origin.
C5_ExpandedOnce ==
    RelatedDone =>
        /\ NoDup(last.trace.expanded)
        /\ last.path \notin Range(last.trace.expanded)

\* a call that expanded two notes and met the origin among the start paths
C5_Witness ==
    /\ RelatedDone
    /\ Len(last.trace.expanded) >= 2
    /\ last.path \in Range(last.response.data.direct_outlinks)

\* the position of the first link entry of a note that resolves to dest
FirstDiscovery(path, dest) ==
    CHOOSE i \in 1..Len(allLinks(path)) :
        /\ getFirstLinkpathDest(allLinks(path)[i], path) = dest
        /\ \A j \in 1..(i - 1) : getFirstLinkpathDest(allLinks(path)[j], path) # dest

\* C6: direct_backlinks holds exactly once each the note files whose entry of
\* the link table contains the target, and direct_outlinks holds exactly once
\* each, in order of first discovery, the destinations the links and embeds of
\* the note resolve to.
C6_DirectLinksExact ==
    RelatedDone =>
        LET d == last.response.data
            outs == d.direct_outlinks
        IN  /\ NoDup(d.direct_backlinks)
            /\ Range(d.direct_backlinks) =
                   {src \in files \cap DOMAIN cache : last.path \in resolvedLinks(src)}
            /\ NoDup(outs)
            /\ Range(outs) = {getFirstLinkpathDest(l, last.path) :
                                 l \in Range(allLinks(last.path))} \ {Null}
            /\ \A i, j \in 1..Len(outs) :
                   i < j => FirstDiscovery(last.path, outs[i]) < FirstDiscovery(last.path, outs[j])

\* a call on a note with a repeated link, a link and an embed, and a backlink
C6_Witness ==
    /\ RelatedDone
    /\ Len(allLinks(last.path)) > Len(last.response.data.direct_outlinks)
    /\ Len(last.response.data.direct_outlinks) >= 1
    /\ cache[last.path].embeds # <<>> /\ cache[last.path].links # <<>>
    /\ Len(last.response.data.direct_backlinks) >= 1

\* C7: on an existing note, depth 0 and depth 4 are answered with the error
\* INVALID_PARAMETER and depth 1, 2 and 3 with a success envelope.
C7_DepthValidated ==
    (last # NoCall /\ last.tool = "get_related_notes" /\ last.path \in files
        /\ last.depth.kind = "number") =>
        /\ last.depth.val \in {0, 4} =>
               ~last.response.success /\ last.response.code = "INVALID_PARAMETER"
        /\ last.depth.val \in 1..3 => last.response.success

\* depth 0 refused on a note that has links
C7_Witness ==
    /\ last # NoCall /\ last.tool = "get_related_notes" /\ last.path \in files
    /\ last.depth = DepthNumber(0)
    /\ allLinks(last.path) # <<>>
    /\ last.response.code = "INVALID_PARAMETER"

\* C8: a well-formed path at which the vault holds no note file is answered
\* with NOTE_NOT_FOUND whatever the depth argument, and the suggestions name
\* at most 3 paths, each the path of an existing note.
C8_NotFoundSuggestions ==
    (last # NoCall /\ last.tool = "get_related_notes" /\ last.path # Null
        /\ validatePath(last.path) /\ last.path \notin files) =>
        /\ ~last.response.success
        /\ last.response.code = "NOTE_NOT_FOUND"
        /\ Len(last.response.suggestions) <= 3
        /\ Range(last.response.suggestions) \subseteq files

\* a missing path asked with a depth out of range in a vault of four notes,
\* answered with three suggestions
C8_Witness ==
    /\ last # NoCall /\ last.tool = "get_related_notes"
    /\ last.path \notin files /\ last.depth = DepthNumber(4)
    /\ files = Notes
    /\ last.response.code = "NOTE_NOT_FOUND"
    /\ Len(last.response.suggestions) = 3

-----------------------------------------------------------------------------
(* Properties of search_notes.                                             *)

\* a search_notes call has returned a success envelope
SearchDone == last # NoCall /\ last.tool = "search_notes" /\ last.response.success

\* the paths of the returned results, in order
ReturnedPaths ==
    [i \in 1..Len(last.response.data.results) |-> last.response.data.results[i].path]

\* the position of a path in the returned results
ReturnedAt(p) == CHOOSE i \in 1..Len(ReturnedPaths) : ReturnedPaths[i] = p

\* how the basename of a note matches the query: 2 equal, 1 containing, 0 not
TitleTier(p, query) ==
    IF ToLower(Basename(p)) = ToLower(query) THEN 2
    ELSE IF Includes(ToLower(Basename(p)), ToLower(query)) THEN 1
    ELSE 0

\* the number of occurrences of the query in the text of a note
ContentCount(p, query) == occurrencesOf(ToLower(content[p]), ToLower(query))

\* the note passes the filters, is readable and holds the query in its
\* basename or its text
IsMatch(p, query, folder, tag) ==
    /\ folder = Null \/ StartsWith(p, folder)
    /\ tag = Null \/ hasTag(View, p, tag)
    /\ p \notin unreadable
    /\ \/ Includes(ToLower(Basename(p)), ToLower(query))
       \/ Includes(ToLower(content[p]), ToLower(query))

\* the matching notes of the call
MatchingNotes == {p \in files : IsMatch(p, last.query, last.folder, last.tag)}

\* C9: sorted by relevance, of two matching notes with the same number of
\* content occurrences the one whose basename equals the query comes before
\* one whose basename contains it, which comes before one matched by content.
C9_TitleTiersRanked ==
    (SearchDone /\ last.response.data.filters.sort_by = "relevance") =>
        \A x, y \in MatchingNotes :
            (/\ ContentCount(x, last.query) = ContentCount(y, last.query)
             /\ TitleTier(x, last.query) > TitleTier(y, last.query)
             /\ y \in Range(ReturnedPaths)) =>
                x \in Range(ReturnedPaths) /\ ReturnedAt(x) < ReturnedAt(y)

\* three returned notes with one content occurrence each: one named as the
\* query, one whose name contains it, one matched by its text only
C9_Witness ==
    /\ SearchDone /\ last.response.data.filters.sort_by = "relevance"
    /\ \E x, y, z \in Range(ReturnedPaths) :
           /\ TitleTier(x, last.query) = 2 /\ TitleTier(y, last.query) = 1
           /\ TitleTier(z, last.query) = 0
           /\ \A p \in {x, y, z} : ContentCount(p, last.query) = 1

\* the record of the results array, before the sort, of a matching note
MatchRecord(p) == CHOOSE r \in Range(last.matches) : r.path = p

\* C10: the returned results are the first min(limit, total_matches) entries
\* of the matches ordered by sort_by: they are matches, none twice, in order,
\* no omitted match sorts strictly before a returned one, and total_matches
\* counts every match.
C10_LimitAfterSort ==
    (SearchDone /\ limitOf(last.limit) >= 0) =>
        LET d == last.response.data
            returned == Range(ReturnedPaths)
        IN  /\ d.total_matches = Cardinality(MatchingNotes)
            /\ Len(d.results) = Min(limitOf(last.limit), d.total_matches)
            /\ d.returned_count = Len(d.results)
            /\ NoDup(ReturnedPaths)
            /\ returned \subseteq MatchingNotes
            /\ \A i, j \in 1..Len(ReturnedPaths) :
                   i < j => Compare(MatchRecord(ReturnedPaths[i]),
                                    MatchRecord(ReturnedPaths[j]), d.filters.sort_by) <= 0
            /\ \A o \in MatchingNotes \ returned : \A r \in returned :
                   Compare(MatchRecord(o), MatchRecord(r), d.filters.sort_by) >= 0

\* a limit of 2 cutting four matches whose sorted order is not the order of
\* the scan
C10_Witness ==
    /\ SearchDone /\ last.limit = LimitNumber(2)
    /\ last.response.data.total_matches = 4
    /\ Len(ReturnedPaths) = 2
    /\ ReturnedPaths[1] # last.matches[1].path
    /\ ReturnedPaths[2] # last.matches[2].path

\* the paths of the results array of the call, before the sort and the limit
MatchedPaths == {last.matches[i].path : i \in 1..Len(last.matches)}

\* the tag asked for, with its leading #
WithHash(tag) == IF StartsWith(tag, <<"#">>) THEN tag ELSE <<"#">> \o tag

\* C11: a note is among the matches of search_notes if and only if it passes
\* the folder filter (its path starts with folder, when set), passes the tag
\* filter (when set), its content is readable, and the query occurs
\* case-insensitively in its basename or in its content; a note with score 0
\* and no content occurrence is never returned.
C11_MatchesExactlyFiltered ==
    SearchDone =>
        /\ \A p \in files :
               p \in MatchedPaths <=>
                   /\ last.folder = Null \/ StartsWith(p, last.folder)
                   /\ last.tag = Null \/ WithHash(last.tag) \in tags[p]
                   /\ p \notin unreadable
                   /\ \/ Includes(ToLower(Basename(p)), ToLower(last.query))
                      \/ Includes(ToLower(content[p]), ToLower(last.query))
        /\ MatchedPaths \subseteq files
        /\ Range(ReturnedPaths) \subseteq MatchedPaths
        /\ \A i \in 1..Len(last.matches) :
               \/ last.matches[i].score > 0
               \/ ContentCount(last.matches[i].path, last.query) > 0

\* a call with both filters set that returns a note, over a vault where the
\* folder filter, the tag filter and a failed read each leave out a note that
\* holds the query
C11_Witness ==
    /\ SearchDone /\ last.folder # Null /\ last.tag # Null
    /\ MatchedPaths # {}
    /\ \E p \in files \ MatchedPaths :
           /\ IsMatch(p, last.query, Null, last.tag)
           /\ ~StartsWith(p, last.folder)
    /\ \E p \in files \ MatchedPaths :
           /\ IsMatch(p, last.query, Null, Null)
           /\ tags[p] = {}
    /\ \E p \in unreadable :
           /\ StartsWith(p, last.folder) /\ tags[p] # {}
           /\ Includes(ToLower(Basename(p)), ToLower(last.query))

\* the notes listed in the four lists of a get_related_notes result
ListedNotes ==
    LET d == last.response.data
    IN  Range(d.direct_outlinks) \cup Range(d.direct_backlinks)
        \cup Range(d.transitive_outlinks) \cup Range(d.transitive_backlinks)

\* the direct neighbours of the note of the call, from the metadata cache
DirectNeighbours ==
    {p \in files : p \in resolvedLinks(last.path)}
        \cup {p \in files : last.path \in resolvedLinks(p)}

\* C12: a failure to read one note's content never turns a search_notes or
\* get_related_notes call into an error: search_notes leaves the note out and
\* returns success with the other matches, and get_related_notes with
\* include_snippets still lists the unreadable neighbour, with the placeholder
\* snippet, and returns success.
C12_ReadFailureNotFatal ==
    /\ (last # NoCall /\ last.tool = "search_notes") =>
           /\ last.response.success
           /\ MatchedPaths = {p \in files \ unreadable :
                                  IsMatch(p, last.query, last.folder, last.tag)}
           /\ Range(ReturnedPaths) = MatchedPaths
    /\ (last # NoCall /\ last.tool = "get_related_notes") =>
           /\ last.response.success
           /\ \A p \in DirectNeighbours : \E n \in ListedNotes : n.path = p
           /\ \A n \in ListedNotes :
                  n.has_snippet = (last.options.include_snippets = "true")
           /\ \A n \in ListedNotes :
                  (n.has_snippet /\ n.path \in unreadable) => n.snippet = ErrorSnippet
           /\ \A n \in ListedNotes :
                  (n.has_snippet /\ n.path \notin unreadable) => n.snippet # ErrorSnippet

\* a search that leaves out an unreadable note holding the query and returns
\* another note
C12_WitnessSearch ==
    /\ SearchDone
    /\ \E p \in unreadable : Includes(ToLower(content[p]), ToLower(last.query))
    /\ MatchedPaths # {}

\* a get_related_notes call with snippets at depth 2 that lists a direct
\* neighbour with its snippet, cut after the frontmatter block and trimmed,
\* and a transitive neighbour that cannot be read
C12_Witness ==
    /\ last # NoCall /\ last.tool = "get_related_notes" /\ last.response.success
    /\ last.options.include_snippets = "true"
    /\ \E n \in Range(last.response.data.direct_outlinks) :
           n.snippet = <<"a", ".", ".", ".">>
    /\ \E n \in Range(last.response.data.transitive_outlinks) :
           n.path \in unreadable /\ n.snippet = ErrorSnippet

-----------------------------------------------------------------------------
(* Properties of extractSnippet.                                           *)

\* extractSnippet has been applied
ExtractDone == last # NoCall /\ last.tool = "extractSnippet"

\* the occurrences of the term the global case-insensitive replace wraps in
\* bold markers: the empty term matches at every position
wrapped(s, term) ==
    IF term = <<>> THEN Len(s) + 1 ELSE occurrencesOf(ToLower(s), ToLower(term))

\* the term occurs in the string, in any case
Occurs(s, term) == Includes(ToLower(s), ToLower(term))

\* C13 as stated: for every text, every term and every positive maxLength n,
\* extractSnippet(text, term, n) returns a string of length at most n + 6.
C13_Original ==
    ExtractDone => Len(last.result) <= last.maxLength + 6

\* C13: extractSnippet(text, term, n) returns a string of length at most
\* n + 6 + 4k, where k is the number of occurrences of the term it wraps in
\* bold markers within the window; when the term does not occur in the text
\* the length is at most n + 3.
C13_LengthBound ==
    ExtractDone =>
        IF Occurs(last.text, last.term)
        THEN LET window == snippetWindow(last.text, last.term, last.maxLength)
             IN  /\ Len(window) <= last.maxLength + 6
                 /\ Len(last.result) <= Len(window) + 4 * wrapped(window, last.term)
        ELSE Len(last.result) <= last.maxLength + 3

\* a snippet cut on both sides around a wrapped term, longer than n + 6
C13_Witness ==
    /\ ExtractDone /\ last.term # <<>>
    /\ StartsWith(last.result, Ellipsis \o Bold)
    /\ Len(last.result) = last.maxLength + 6 + 4

\* the first n characters of the text neither begin nor end with white space
CleanPrefix(text, n) ==
    LET prefix == Substring(text, 0, n)
    IN  prefix = <<>> \/ (Head(prefix) \notin WhiteSpace /\ prefix[Len(prefix)] \notin WhiteSpace)

\* C14 as stated: if s = extractSnippet(text, term, n) and the term does not
\* occur in s, then extractSnippet(s, term, n) = s.
C14_Original ==
    (ExtractDone /\ ~Occurs(last.result, last.term)) => last.again = last.result

\* C14: if the term occurs neither in the text nor in s = extractSnippet(text,
\* term, n), and the text is at most n characters long or its first n
\* characters neither begin nor end with white space, then
\* extractSnippet(s, term, n) = s.
C14_StableWhenNothingTrimmed ==
    (/\ ExtractDone
     /\ ~Occurs(last.text, last.term) /\ ~Occurs(last.result, last.term)
     /\ Len(last.text) <= last.maxLength \/ CleanPrefix(last.text, last.maxLength)) =>
        last.again = last.result

\* a text cut to its first n characters, the ellipsis appended, and the
\* result cut again to the same string
C14_Witness ==
    /\ ExtractDone
    /\ ~Occurs(last.text, last.term) /\ ~Occurs(last.result, last.term)
    /\ Len(last.text) > last.maxLength /\ CleanPrefix(last.text, last.maxLength)
    /\ Len(last.result) = last.maxLength + 3
    /\ last.again = last.result

-----------------------------------------------------------------------------
(* Properties of removeFrontmatter.                                        *)

\* removeFrontmatter has been applied
RemoveDone == last # NoCall /\ last.tool = "removeFrontmatter"

\* the positions of the closing lines of a text
ClosingLines(s) == {i \in 1..Len(s) : OccursAt(s, Closing, i)}

\* the text begins with a frontmatter block
BeginsWithBlock(s) ==
    StartsWith(s, Opening) /\ \E i \in ClosingLines(s) : i > Len(Opening)

\* C15 as stated: removeFrontmatter is idempotent: for every text t,
\* removeFrontmatter(removeFrontmatter(t)) = removeFrontmatter(t).
C15_Original ==
    RemoveDone => last.again = last.result

\* C15: removeFrontmatter strips one leading block, so
\* removeFrontmatter(removeFrontmatter(t)) = removeFrontmatter(t) exactly when
\* removeFrontmatter(t) does not itself begin with a frontmatter block; this
\* is so for every text t that holds at most one closing line.
C15_IdempotentOnOneBlock ==
    RemoveDone =>
        /\ (last.again = last.result) <=> ~BeginsWithBlock(last.result)
        /\ Cardinality(ClosingLines(last.text)) <= 1 => last.again = last.result

\* a text with one block before its body: the block is stripped, and
\* stripping again changes nothing
C15_Witness ==
    /\ RemoveDone
    /\ BeginsWithBlock(last.text)
    /\ last.result = <<"a">>
    /\ last.again = last.result

-----------------------------------------------------------------------------
(* Properties of create_note and get_note.                                 *)

\* the number of calls that have returned, and the k-th call from the last
Calls == Len(history)
Back(k) == history[Len(history) - k]

\* the k-th call from the last began after the call before it had returned,
\* and no call returned while it was under way
Followed(k) == Calls > k /\ Back(k).seen = Calls - k - 1

\* the k-th call from the last is a create_note call that passed its argument
\* checks, and the path it composed
IsCreate(k) ==
    /\ Calls > k /\ Back(k).tool = "create_note"
    /\ Back(k).filename # Null /\ Back(k).text.kind = "string"
CreatePath(k) == fullPathOf(Back(k).filename, Back(k).options.folder)

\* C16: after a successful createNote(f, x), a second createNote(f, y) without
\* overwrite returns FILE_EXISTS and the note's content is still x.
C16_SecondCreateRefused ==
    (/\ IsCreate(1) /\ Back(1).response.success
     /\ IsCreate(0) /\ CreatePath(0) = CreatePath(1) /\ Followed(0)
     /\ Back(0).options.overwrite # "true") =>
        /\ ~Back(0).response.success
        /\ Back(0).response.code = "FILE_EXISTS"
        /\ CreatePath(1) \in files
        /\ content[CreatePath(1)] = Back(1).text.val

\* a note created as "a" with content x and a refused second create as "a.md"
\* with another content
C16_Witness ==
    /\ IsCreate(1) /\ Back(1).response.success /\ Back(1).filename = <<"a">>
    /\ IsCreate(0) /\ Back(0).filename = NoteA /\ Back(0).options.overwrite # "true"
    /\ Followed(0)
    /\ Back(0).text # Back(1).text
    /\ Back(0).response.code = "FILE_EXISTS"

\* the last three calls are a successful createNote(f, x), a createNote(f, y)
\* with overwrite, and a getNote on the normalized path, each begun after the
\* one before it had returned
OverwriteThenGet ==
    /\ IsCreate(2) /\ Back(2).response.success
    /\ IsCreate(1) /\ CreatePath(1) = CreatePath(2) /\ Back(1).options.overwrite = "true"
    /\ Followed(1)
    /\ Calls > 0 /\ Back(0).tool = "get_note" /\ Back(0).path = CreatePath(1)
    /\ Followed(0)

\* getNote is called with none of its options set
DefaultGet ==
    /\ Back(0).options.preview = "undefined"
    /\ Back(0).options.max_content_length = LimitUndefined

\* C17 as stated: after createNote(f, x), createNote(f, y) with overwrite=true
\* returns success and a following getNote on the normalized path returns
\* content equal to y, for every content y.
C17_Original ==
    (OverwriteThenGet /\ DefaultGet) =>
        /\ Back(1).response.success
        /\ Back(0).response.success
        /\ Back(0).response.data.content = Back(1).text.val

\* the closing line of the block the text s begins with: the first one after
\* its opening line
FirstClosing(s) ==
    CHOOSE i \in ClosingLines(s) :
        i > Len(Opening) /\ \A j \in ClosingLines(s) : j > Len(Opening) => i <= j

\* what stands between the two lines of the block s begins with, and what
\* stands after the block; a text that begins with no block has no inside
\* and stands after it as a whole
BlockInside(s) ==
    IF BeginsWithBlock(s) THEN SubSeq(s, Len(Opening) + 1, FirstClosing(s) - 1) ELSE <<>>
AfterBlock(s) ==
    IF BeginsWithBlock(s) THEN SubSeq(s, FirstClosing(s) + Len(Closing), Len(s)) ELSE s

\* C17: after createNote(f, x), createNote(f, y) with overwrite=true returns
\* success, and a following getNote on the normalized path, without preview,
\* succeeds and answers with y less the frontmatter block it begins with: the
\* response has a frontmatter field exactly when y begins with a block whose
\* inside is not empty, and the field holds that inside; the text r after the
\* block (y itself when there is none) is the content when it has at most
\* max_content_length characters (50000 by default), and a longer r is
\* answered with its first 500 characters and the truncation notice, marked
\* as a preview. So content equals y for every y that begins with no block
\* and is within the limit.
C17_OverwriteThenRead ==
    (OverwriteThenGet /\ Back(0).options.preview = "undefined") =>
        LET y == Back(1).text.val
            d == Back(0).response.data
            limit == maxContentLengthOf(Back(0).options.max_content_length)
            r == AfterBlock(y)
        IN  /\ Back(1).response.success /\ Back(1).response.data.overwritten
            /\ Back(0).response.success
            /\ d.has_frontmatter <=> (BeginsWithBlock(y) /\ BlockInside(y) # <<>>)
            /\ d.has_frontmatter => d.frontmatter = BlockInside(y)
            /\ Len(r) <= limit => d.content = r /\ ~d.is_preview
            /\ Len(r) > limit =>
                   /\ d.content = SubSeq(r, 1, Min(500, Len(r))) \o TooLargeNote
                   /\ d.is_preview
            /\ (~BeginsWithBlock(y) /\ Len(y) <= limit) => d.content = y

\* a note overwritten with a text that begins with a block holding nothing,
\* followed by more characters than max_content_length, and read back: no
\* frontmatter is answered, and the text after the block is cut
C17_Witness ==
    /\ OverwriteThenGet /\ Back(0).options.preview = "undefined"
    /\ Back(2).text.val = FrontText /\ Back(1).text.val = EmptyInsideText
    /\ Back(0).options.max_content_length = LimitNumber(1)
    /\ Back(0).response.success
    /\ ~Back(0).response.data.has_frontmatter
    /\ Back(0).response.data.content = <<"z", "z">> \o TooLargeNote

-----------------------------------------------------------------------------
(* Properties of append_to_note.                                           *)

\* the k-th call from the last is an append_to_note call that succeeded
IsAppend(k) ==
    Calls > k /\ Back(k).tool = "append_to_note" /\ Back(k).response.success

\* an append_to_note call at the start of the note with ensure_newline on
\* has succeeded
StartAppendDone ==
    /\ IsAppend(0) /\ Back(0).options.position = "start"
    /\ Back(0).options.ensure_newline # "false"
    /\ Back(0).text # <<>>

\* C18 as stated: for every existing note with content c and every non-empty
\* appended content a, appendToNote with position 'start' and ensure_newline
\* true leaves the note starting with a and ending with c, with exactly one
\* newline character separating them.
C18_Original ==
    StartAppendDone =>
        content[Back(0).path] = Back(0).text \o <<"\n">> \o Back(0).original

\* C18: for every existing note with content c and every non-empty appended
\* content a, appendToNote with position 'start' and ensure_newline true
\* leaves the note starting with a and ending with c, with exactly two
\* newline characters, a blank line, separating them.
C18_StartBlankLine ==
    StartAppendDone =>
        LET new == content[Back(0).path]
            a == Back(0).text
            c == Back(0).original
        IN  /\ StartsWith(new, a) /\ EndsWith(new, c)
            /\ Len(new) = Len(a) + 2 + Len(c)
            /\ new[Len(a) + 1] = "\n" /\ new[Len(a) + 2] = "\n"
            /\ Back(0).response.data.new_length = Len(new)

\* "x" put at the start of the note "c"
C18_Witness ==
    /\ StartAppendDone
    /\ Back(0).text = <<"x">> /\ Back(0).original = <<"c">>
    /\ content[Back(0).path] = <<"x", "\n", "\n", "c">>

\* C19: for any two appendToNote calls on the same existing note that both
\* return success, the final note content contains the original content and
\* both appended contents, including when the two calls overlap in time.
C19_BothAppendsKept ==
    (IsAppend(0) /\ IsAppend(1) /\ Back(0).path = Back(1).path /\ pending = <<>>) =>
        LET final == content[Back(0).path]
        IN  /\ Includes(final, Back(0).original) /\ Includes(final, Back(1).original)
            /\ Includes(final, Back(0).text) /\ Includes(final, Back(1).text)

\* a line that holds --- and nothing else begins at position i of the text
DashLineAt(s, i) ==
    /\ i = 1 \/ (i > 1 /\ i <= Len(s) /\ s[i - 1] = "\n")
    /\ OccursAt(s, <<"-", "-", "-">>, i)
    /\ i + 3 > Len(s) \/ s[i + 3] = "\n"

\* the frontmatter block a text begins with, its two --- lines included: from
\* the leading --- line up to the next --- line; empty when there is none
LeadingBlock(s) ==
    LET next == {i \in 2..Len(s) : DashLineAt(s, i)}
    IN  IF DashLineAt(s, 1) /\ next # {}
        THEN SubSeq(s, 1, Min(Len(s), (CHOOSE i \in next : \A j \in next : i <= j) + 3))
        ELSE <<>>

\* C25: for appendToNote with position 'after_frontmatter' on a note whose text
\* begins with a frontmatter block (a leading --- line up to the next --- line,
\* the block between them possibly empty), the new text is that block
\* unchanged, then the appended content, then the separator, then the remainder
\* of the original text unchanged.
C25_AfterFrontmatterSplice ==
    (/\ IsAppend(0) /\ Back(0).options.position = "after_frontmatter"
     /\ LeadingBlock(Back(0).original) # <<>>) =>
        LET block == LeadingBlock(Back(0).original)
            separator == IF ensureNewlineOf(Back(0).options.ensure_newline)
                         THEN <<"\n">> ELSE <<>>
        IN  content[Back(0).path] =
                block \o Back(0).text \o separator
                    \o SubSeq(Back(0).original, Len(block) + 1, Len(Back(0).original))

-----------------------------------------------------------------------------
(* Properties of the argument checks.                                      *)

\* the codes of the validation errors
ValidationCodes == {"MISSING_PARAMETER", "INVALID_PATH", "INVALID_PARAMETER"}

\* the call is answered with a validation error
ValidationError(call) ==
    /\ call.tool \in {"create_note", "append_to_note", "get_note", "get_related_notes"}
    /\ ~call.response.success
    /\ call.response.code \in ValidationCodes

\* C20: any create_note, append_to_note, get_note or get_related_notes call
\* that returns MISSING_PARAMETER, INVALID_PATH or INVALID_PARAMETER has read
\* or written no note content and leaves the vault (notes, folders, contents)
\* exactly as it was before the call.
C20_ValidationErrorsTouchNothing ==
    [][(Len(history') = Len(history) + 1 /\ ValidationError(history'[Len(history')])) =>
           /\ UNCHANGED <<files, folders, content, stat, cache, tags>>
           /\ history'[Len(history')].reads = {}
           /\ history'[Len(history')].written = {}]_vars

\* every tool has answered with a validation error: create_note with an
\* INVALID_PATH whose folder was not made, after a call that did write
C20_Witness ==
    /\ Calls = 3
    /\ Back(0).tool = "create_note" /\ Back(0).response.code = "INVALID_PATH"
    /\ FolderG \notin folders
    /\ Back(1).tool = "get_related_notes" /\ Back(1).response.code = "INVALID_PARAMETER"
    /\ Back(2).tool = "append_to_note" /\ Back(2).response.success
    /\ content[NoteA] # <<"c">>

-----------------------------------------------------------------------------
(* Properties of the error codes.                                          *)

\* the codes the list of the core's error codes names
ListedCodes ==
    {"MISSING_PARAMETER", "INVALID_PATH", "INVALID_PARAMETER", "NOTE_NOT_FOUND",
     "FILE_EXISTS", "PATH_IS_FOLDER", "READ_ERROR", "SEARCH_ERROR", "APPEND_ERROR",
     "CREATE_ERROR", "RELATED_NOTES_ERROR"}

\* the responses returned so far: those of the calls that have returned, and
\* that of the call being delivered
Responses ==
    {history[i].response : i \in 1..Len(history)}
        \cup (IF last = NoCall THEN {} ELSE {last.response})

\* the codes of the error envelopes returned so far
ErrorCodes == {r.code : r \in {e \in Responses : ~e.success}}

\* C21 as stated: every error envelope returned by search_notes, get_note,
\* get_related_notes, append_to_note or create_note carries one of the eleven
\* listed codes.
C21_Original == ErrorCodes \subseteq ListedCodes

\* C21: every error envelope returned by search_notes, get_note,
\* get_related_notes, append_to_note or create_note carries one of the eleven
\* listed codes, or UNSUPPORTED_FILE_TYPE (get_note on a file that is not a
\* text file), or FOLDER_CREATE_ERROR (create_note whose folder cannot be made).
C21_CodesOfTheTools ==
    ErrorCodes \subseteq ListedCodes \cup {"UNSUPPORTED_FILE_TYPE", "FOLDER_CREATE_ERROR"}

\* in a host whose collaborators fail, append_to_note has answered the
\* rejected write of a note it had read, get_related_notes and search_notes
\* the lookup that threw, each from its catch block, and create_note has
\* refused to overwrite a folder
C21_Witness ==
    /\ Calls = 3
    /\ Back(0).tool = "create_note" /\ Back(0).response.code = "PATH_IS_FOLDER"
    /\ Back(1).tool = "get_related_notes"
    /\ Back(1).response.code = "RELATED_NOTES_ERROR"
    /\ Back(2).tool = "append_to_note" /\ Back(2).response.code = "APPEND_ERROR"
    /\ Back(2).reads = {NoteB} /\ NoteB \notin unreadable
    /\ last # NoCall /\ last.tool = "search_notes"
    /\ last.response.code = "SEARCH_ERROR"

-----------------------------------------------------------------------------
(* Properties of the transitive lists of get_related_notes.                *)

RECURSIVE OutChain(_, _)
\* the notes at the end of a chain of k resolved outlinks that starts in S
OutChain(S, k) ==
    IF k = 0 THEN S ELSE OutChain(UNION {resolvedLinks(p) : p \in S}, k - 1)

RECURSIVE BackChain(_, _)
\* the notes at the start of a chain of k resolved links that ends in S
BackChain(S, k) ==
    IF k = 0 THEN S
    ELSE BackChain({src \in files \cap DOMAIN cache : resolvedLinks(src) \cap S # {}}, k - 1)

\* the notes whose shortest chain of outlinks from the origin, or of backlinks
\* to it, has k links
OutShortest(origin, k) ==
    OutChain({origin}, k) \ UNION {OutChain({origin}, j) : j \in 0..(k - 1)}
BackShortest(origin, k) ==
    BackChain({origin}, k) \ UNION {BackChain({origin}, j) : j \in 0..(k - 1)}

\* C22: at depth d of 2 or 3, every path in transitive_outlinks is the end of a
\* chain of k resolved outlinks that starts at the origin, with 2 <= k <= d,
\* every path in transitive_backlinks is the start of a chain of k links that
\* ends at the origin, with 2 <= k <= d, and no returned note is farther than d
\* hops from the origin.
C22_TransitiveWithinDepth ==
    (RelatedDone /\ DoneDepth \in 2..3) =>
        LET d == last.response.data
        IN  /\ Range(d.transitive_outlinks) \subseteq
                   UNION {OutChain({last.path}, k) : k \in 2..DoneDepth}
            /\ Range(d.transitive_backlinks) \subseteq
                   UNION {BackChain({last.path}, k) : k \in 2..DoneDepth}
            /\ Range(d.direct_outlinks) \cup Range(d.direct_backlinks)
                   \cup Range(d.transitive_outlinks) \cup Range(d.transitive_backlinks)
                   \subseteq UNION {OutShortest(last.path, k) \cup BackShortest(last.path, k) :
                                       k \in 0..DoneDepth}

\* a depth-2 call on the first note of a chain of three links: the note two
\* links away is returned, the note three links away exists and is not
C22_Witness ==
    /\ RelatedDone /\ DoneDepth = 2
    /\ Len(last.response.data.transitive_outlinks) = 1
    /\ OutShortest(last.path, 3)  # {}
    /\ OutShortest(last.path, 3) \cap Range(last.response.data.transitive_outlinks) = {}

\* C23: at depth d of 2 or 3, every note whose shortest chain of outlinks from
\* the origin has between 2 and d links is in transitive_outlinks, in whatever
\* order the links are listed.
C23_OutlinksComplete ==
    (RelatedDone /\ DoneDepth \in 2..3) =>
        UNION {OutShortest(last.path, k) : k \in 2..DoneDepth}
            \subseteq Range(last.response.data.transitive_outlinks)

\* a call that returned a note two links away that only the second of the two
\* direct outlinks of the origin links to
C23_Witness ==
    /\ RelatedDone /\ DoneDepth \in 2..3
    /\ Len(last.response.data.direct_outlinks) = 2
    /\ \E n \in OutShortest(last.path, 2) :
           /\ n \in resolvedLinks(last.response.data.direct_outlinks[2])
           /\ n \notin resolvedLinks(last.response.data.direct_outlinks[1])
           /\ n \in Range(last.response.data.transitive_outlinks)

\* C24: at depth d of 2 or 3, every note whose shortest chain of backlinks to
\* the origin has between 2 and d links is in transitive_backlinks, whatever
\* the outlinks of the graph are: the backlink expansion is not cut short by
\* notes the outlink expansion visited first.
C24_BacklinksComplete ==
    (RelatedDone /\ DoneDepth \in 2..3) =>
        UNION {BackShortest(last.path, k) : k \in 2..DoneDepth}
            \subseteq Range(last.response.data.transitive_backlinks)

-----------------------------------------------------------------------------
(* Properties of the HTTP handler.                                         *)

\* a POST body has been handled, and the request parsed from it
PostDone == last # NoCall /\ last.tool = "POST"
PostRequest == last.body.request

\* C26: every HTTP POST body handled by the server gets exactly one HTTP
\* response: a body that is no JSON gets status 500 with the JSON-RPC error
\* -32603, an unknown method the error -32601, and initialize, tools/list and
\* tools/call for an advertised tool a JSON-RPC result that carries the id of
\* the request, a failure of the tool being inside the text envelope of the
\* result.
C26_OneResponsePerPost ==
    PostDone =>
        /\ Len(last.writes) = 1
        /\ last.body.json = "invalid" =>
               /\ last.writes[1].status = 500
               /\ last.writes[1].response.kind = "error"
               /\ last.writes[1].response.code = -32603
        /\ (/\ last.body.json = "object"
            /\ PostRequest.method \in {<<"resources", "list">>}) =>
               /\ last.writes[1].response.kind = "error"
               /\ last.writes[1].response.code = -32601
        /\ (/\ last.body.json = "object"
            /\ \/ PostRequest.method \in {<<"initialize">>, <<"tools", "list">>}
               \/ /\ PostRequest.method = <<"tools", "call">>
                  /\ PostRequest.params.name \in AdvertisedTools) =>
               /\ last.writes[1].response.kind = "result"
               /\ last.writes[1].response.id = PostRequest.id

-----------------------------------------------------------------------------
(* Properties of the lifecycle.                                             *)

\* C27: for any interleaving of start and stop calls on one MCPServer, at
\* most one HTTP server instance exists at a time, a start while one exists
\* creates none, a step that resolves a stop call leaves isRunning() false,
\* and isRunning() becomes true again only by a start.
C27_OneInstance ==
    /\ [](Cardinality(Existing) <= 1)
    /\ [][/\ (step'.op = "start" /\ Existing # {}) => instances' = instances
          /\ step'.resolved > 0 => ~isRunning'
          /\ (~isRunning /\ isRunning') => step'.op = "start"]_vars

\* start is called while the second instance is closing, after the stop of
\* the first instance has resolved, and creates nothing
C27_Witness ==
    /\ Len(instances) = 2
    /\ instances[1].state = "closed"
    /\ instances[2].state = "listening" /\ instances[2].callbacks = 2
    /\ step.op = "start" /\ ~step.created
    /\ isRunning

\* C28: when the instance could not bind its port and has emitted 'error',
\* isRunning() is false and the plugin that loaded the server shows the
\* notice 'Failed to start'.
C28_BindErrorNotRunning ==
    step.op = "error" =>
        /\ ~isRunning
        /\ (plugin.phase = "loaded" /\ plugin.enabled) => plugin.notice = "Failed to start"

-----------------------------------------------------------------------------
(* Properties of the bridge.                                                *)

\* C29: for a line of standard input the bridge writes nothing for a blank
\* line, nothing for a notification (no id and a method that begins with
\* notifications/), and exactly one response line for every other line,
\* whether or not the request could be forwarded.
C29_LinesWritten ==
    step.op = "line" =>
        IF step.line.json = "blank" THEN step.wrote = 0
        ELSE IF /\ step.line.json = "object"
                /\ step.line.request.id = NoId
                /\ step.line.request.method[1] = "notifications"
        THEN step.wrote = 0
        ELSE step.wrote = 1

-----------------------------------------------------------------------------
(* Properties of overlapping create_note calls.                             *)

\* the calls returned i-th and j-th overlap, are for the same path, and
\* found nothing at the path when they began
RacingCreates(i, j) ==
    /\ i < j
    /\ history[i].fresh /\ history[j].fresh
    /\ history[j].seen < i
    /\ fullPathOf(history[i].filename, history[i].options.folder)
           = fullPathOf(history[j].filename, history[j].options.folder)

\* C30: of two overlapping create_note calls for the same path without
\* overwrite, with no file at the path beforehand, at most one returns
\* success, the other then returns FILE_EXISTS, and the note holds the content
\* of the call that succeeded.
C30_OneCreateWins ==
    \A i, j \in 1..Len(history) :
        RacingCreates(i, j) =>
            LET a == history[i]
                b == history[j]
                path == fullPathOf(a.filename, a.options.folder)
            IN  /\ ~(a.response.success /\ b.response.success)
                /\ a.response.success =>
                       /\ ~b.response.success /\ b.response.code = "FILE_EXISTS"
                       /\ content[path] = a.text.val
                /\ b.response.success =>
                       /\ ~a.response.success /\ a.response.code = "FILE_EXISTS"
                       /\ content[path] = b.text.val

====
